---- MODULE Spec2Model ----
(***************************************************************************)
(* ScreenGuide-AI: the document/undo model of the App component, the      *)
(* generic useHistory hook and the block operations of InstructionDisplay. *)
(*                                                                         *)
(* Strings are sequences of one-character strings, so that joining,        *)
(* parseInt and String() are computed and not assumed.  A React handler    *)
(* is one action; an async handler is one action per run between awaits,   *)
(* and the values its closure captured at the render it was created in     *)
(* travel with the outstanding call.                                       *)
(***************************************************************************)
EXTENDS Integers, Sequences, FiniteSets

\* ------------------------------------------------------------------ bounds
MaxPast == 2        \* entries kept in past before the model stops editing
MaxSteps == 5       \* steps in a document before the model stops inserting
MaxImages == 2      \* files that can sit in the upload queue
MaxCalls == 2       \* provider / storage calls outstanding at once
MaxSessions == 1    \* sessions the model stores
MaxBlocks == 3      \* blocks of a guide the block operations start from
MaxPoint == 2       \* canvas positions 0..MaxPoint, in units of 8 pixels
MaxAnnotations == 1 \* annotations on the canvas before the model stops adding
MaxMoves == 2       \* pointer moves of one gesture
MaxDrawn == 1       \* milliseconds in which shapes are drawn
MaxStamped == 4     \* milliseconds in which number badges are placed
MaxStamps == 5      \* undo entries made with the number and eraser tools
MaxBadges == 3      \* number badges on the canvas at once

\* ------------------------------------------------------------------ values
Null == "null"
NaN == -99

TextStep(c) == [type |-> "text", content |-> c]
ImageStep(c) == [type |-> "image", content |-> c]
Doc(t, s) == [title |-> t, steps |-> s]
EmptyDoc == Doc("", <<>>)

Digits == <<"1", "2", "3", "4", "5", "6", "7", "8", "9">>

\* String(n) for 1 <= n <= 9
StringOf(n) == <<Digits[n]>>

\* parseInt(s, 10): the value of the leading run of decimal digits, NaN if none
RECURSIVE DigitRun(_, _)
DigitRun(s, acc) ==
    IF s = <<>> THEN acc
    ELSE LET d == {n \in 1..9 : Digits[n] = Head(s)}
         IN IF d = {} /\ Head(s) # "0" THEN acc
            ELSE DigitRun(Tail(s), 10 * acc + (IF d = {} THEN 0 ELSE CHOOSE n \in d : TRUE))
ParseInt(s) ==
    IF s = <<>> \/ ~(Head(s) = "0" \/ \E n \in 1..9 : Digits[n] = Head(s)) THEN NaN
    ELSE DigitRun(s, 0)

\* parseInt(step.content, 10) - 1, NaN staying NaN
ImageIndexOf(step) == IF ParseInt(step.content) = NaN THEN NaN ELSE ParseInt(step.content) - 1

\* ------------------------------------------------------------------ useHistory
History(p, c, f) == [past |-> p, present |-> c, future |-> f]

\* JSON.stringify of a document: keys in insertion order with their values
StringifyStep(s) == <<"type", s.type, "content", s.content>>
Stringify(d) == <<"title", d.title, "steps", [i \in 1..Len(d.steps) |-> StringifyStep(d.steps[i])]>>
deepEqual(obj1, obj2) == Stringify(obj1) = Stringify(obj2)

canUndo(h) == Len(h.past) > 0
canRedo(h) == Len(h.future) > 0

undoNoGuard(h) ==
    History(SubSeq(h.past, 1, Len(h.past) - 1),
            IF h.past = <<>> THEN EmptyDoc ELSE h.past[Len(h.past)],
            <<h.present>> \o h.future)
undoDropsFuture(h) ==
    IF ~canUndo(h) THEN h
    ELSE History(SubSeq(h.past, 1, Len(h.past) - 1), h.past[Len(h.past)], <<h.present>>)
undo(h) ==
    IF ~canUndo(h) THEN h
    ELSE History(SubSeq(h.past, 1, Len(h.past) - 1), h.past[Len(h.past)], <<h.present>> \o h.future)

redo(h) ==
    IF ~canRedo(h) THEN h
    ELSE History(Append(h.past, h.present), h.future[1], Tail(h.future))

\* set is the callback of the render in which `state` was the hook's state; when
\* it runs, React's state is `current`.  Without a commit nothing is written.
setKeepsFuture(state, current, newState) ==
    IF deepEqual(newState, state.present) THEN current
    ELSE History(Append(state.past, state.present), newState, state.future)
setAlwaysPushes(state, current, newState) ==
    History(Append(state.past, state.present), newState, <<>>)
set(state, current, newState) ==
    IF deepEqual(newState, state.present) THEN current
    ELSE History(Append(state.past, state.present), newState, <<>>)

resetLeavesFuture(newInitialState) == History(<<>>, newInitialState, <<newInitialState>>)
reset(newInitialState) == History(<<>>, newInitialState, <<>>)
\* ------------------------------------------------------------------ blocks
\* Indices are the code's 0-based indices; steps[i + 1] is the code's steps[i].
At(steps, i) == steps[i + 1]

Block(t, i, imgs) == [textStep |-> t, textStepIndex |-> i, imageSteps |-> imgs]

\* InstructionDisplay.instructionBlocks: `cur` is <<>> for currentBlock = null
RECURSIVE blocksFrom(_, _, _, _)
blocksFrom(steps, i, blocks, cur) ==
    IF i >= Len(steps) THEN blocks \o cur
    ELSE LET step == At(steps, i)
         IN IF step.type = "text"
            THEN blocksFrom(steps, i + 1, blocks \o cur, <<Block(step, i, <<>>)>>)
            ELSE IF step.type = "image" /\ cur # <<>>
                 THEN blocksFrom(steps, i + 1, blocks,
                        <<[cur[1] EXCEPT !.imageSteps = Append(@, step)]>>)
                 ELSE blocksFrom(steps, i + 1, blocks, cur)
instructionBlocks(steps) == blocksFrom(steps, 0, <<>>, <<>>)

\* blocks.flatMap(block => [block.textStep, ...block.imageSteps])
RECURSIVE flatten(_)
flatten(blocks) ==
    IF blocks = <<>> THEN <<>>
    ELSE <<blocks[1].textStep>> \o blocks[1].imageSteps \o flatten(Tail(blocks))

TextIndices(steps) == {i \in 0..(Len(steps) - 1) : At(steps, i).type = "text"}

\* App.handleDeleteStep: the new step list
RECURSIVE endOfImages(_, _)
endOfImages(steps, endIndex) ==
    IF endIndex < Len(steps) /\ At(steps, endIndex).type = "image"
    THEN endOfImages(steps, endIndex + 1) ELSE endIndex
deleteToEnd(steps, startIndex) == SubSeq(steps, 1, startIndex)
deleteOnlyText(steps, startIndex) ==
    SubSeq(steps, 1, startIndex) \o SubSeq(steps, startIndex + 2, Len(steps))
deleteStepSteps(steps, startIndex) ==
    SubSeq(steps, 1, startIndex) \o SubSeq(steps, endOfImages(steps, startIndex + 1) + 1, Len(steps))

\* [...a].sort((a, b) => a - b) of a list of distinct numbers
RECURSIVE sortAsc(_)
sortAsc(xs) ==
    IF xs = <<>> THEN <<>>
    ELSE LET m == CHOOSE k \in 1..Len(xs) : \A j \in 1..Len(xs) : xs[k] <= xs[j]
         IN <<xs[m]>> \o sortAsc(SubSeq(xs, 1, m - 1) \o SubSeq(xs, m + 1, Len(xs)))

Includes(xs, x) == \E k \in 1..Len(xs) : xs[k] = x

\* strings.join(' ')
RECURSIVE join(_)
join(strs) ==
    IF strs = <<>> THEN <<>>
    ELSE IF Len(strs) = 1 THEN strs[1]
    ELSE strs[1] \o <<" ">> \o join(Tail(strs))

RECURSIVE filterBlocks(_, _)
filterBlocks(blocks, idxs) ==
    IF blocks = <<>> THEN <<>>
    ELSE (IF Includes(idxs, blocks[1].textStepIndex) THEN <<blocks[1]>> ELSE <<>>)
         \o filterBlocks(Tail(blocks), idxs)

RECURSIVE flatImages(_)
flatImages(blocks) ==
    IF blocks = <<>> THEN <<>> ELSE blocks[1].imageSteps \o flatImages(Tail(blocks))

\* the forEach of handleMerge that rebuilds finalSteps
RECURSIVE mergeLoop(_, _, _, _, _)
mergeLoop(blocks, sortedIndices, merged, mergedBlockAdded, finalSteps) ==
    IF blocks = <<>> THEN finalSteps
    ELSE LET block == blocks[1]
         IN IF Includes(sortedIndices, block.textStepIndex)
            THEN IF block.textStepIndex = sortedIndices[1] /\ ~mergedBlockAdded
                 THEN mergeLoop(Tail(blocks), sortedIndices, merged, TRUE, finalSteps \o merged)
                 ELSE mergeLoop(Tail(blocks), sortedIndices, merged, mergedBlockAdded, finalSteps)
            ELSE mergeLoop(Tail(blocks), sortedIndices, merged, mergedBlockAdded,
                           finalSteps \o <<block.textStep>> \o block.imageSteps)

\* InstructionDisplay.handleMerge: the list handed to onStepsChange
mergeFirstImagesOnly(steps, selected) ==
    LET sortedIndices == sortAsc(selected)
        blocksToMerge == filterBlocks(instructionBlocks(steps), sortedIndices)
        mergedText == join([k \in 1..Len(blocksToMerge) |-> blocksToMerge[k].textStep.content])
    IN mergeLoop(instructionBlocks(steps), sortedIndices,
                 <<TextStep(mergedText)>> \o blocksToMerge[1].imageSteps, FALSE, <<>>)
mergedStepsOf(steps, selected) ==
    LET sortedIndices == sortAsc(selected)
        blocksToMerge == filterBlocks(instructionBlocks(steps), sortedIndices)
        mergedText == join([k \in 1..Len(blocksToMerge) |-> blocksToMerge[k].textStep.content])
        mergedImageSteps == flatImages(blocksToMerge)
    IN mergeLoop(instructionBlocks(steps), sortedIndices,
                 <<TextStep(mergedText)>> \o mergedImageSteps, FALSE, <<>>)
\* with fewer than two selected the handler returns before calling onStepsChange
mergeSteps(steps, selected) ==
    IF Len(selected) < 2 THEN steps ELSE mergedStepsOf(steps, selected)

\* a.splice(at, 1) and a.splice(at, 0, x) for 0 <= at <= a.length
removeAt(xs, at) == SubSeq(xs, 1, at) \o SubSeq(xs, at + 2, Len(xs))
insertAt(xs, at, x) == SubSeq(xs, 1, at) \o <<x>> \o SubSeq(xs, at + 1, Len(xs))

\* InstructionDisplay.handleDrop: the list handed to onStepsChange
dropInsertFirst(steps, dragged, dragOver) ==
    LET blocks == instructionBlocks(steps)
        inserted == insertAt(blocks, dragOver, blocks[dragged + 1])
    IN flatten(removeAt(inserted, IF dragOver <= dragged THEN dragged + 1 ELSE dragged))
dropSteps(steps, dragged, dragOver) ==
    LET blocks == instructionBlocks(steps)
        draggedBlock == blocks[dragged + 1]
        newBlocks == removeAt(blocks, dragged)
        at == IF dragOver > Len(newBlocks) THEN Len(newBlocks) ELSE dragOver
    IN flatten(insertAt(newBlocks, at, draggedBlock))

\* InstructionDisplay.handleInsertStep: insertAtIndex, and the new list
insertAfterTextOnly(steps, afterBlockIndex) ==
    IF afterBlockIndex = -1 THEN 0
    ELSE instructionBlocks(steps)[afterBlockIndex + 1].textStepIndex + 1
insertAtIndex(steps, afterBlockIndex) ==
    IF afterBlockIndex = -1 THEN 0
    ELSE LET previousBlock == instructionBlocks(steps)[afterBlockIndex + 1]
         IN previousBlock.textStepIndex + Len(previousBlock.imageSteps) + 1
insertSteps(steps, afterBlockIndex) ==
    insertAt(steps, insertAtIndex(steps, afterBlockIndex), TextStep(<<>>))
\* ------------------------------------------------------------------ ImageAnnotator
\* The canvas is one axis of positions in units of 8 pixels.  What lies under the
\* pointer (a handle of the selected annotation, an annotation) comes with the
\* event: `handle` and `over` are the results of the handler's hit tests.
numberSize == 2         \* toolOptions.numberSize, 16 pixels
MinNumberSize == 1      \* Math.max(8, newRadius)
MinCrop == 2            \* a crop narrower than 10 pixels is dropped

Points == 0..MaxPoint
Tools == {"select", "rectangle", "number", "eraser", "crop"}
HandleKeys == {"e", "w", "rotate"}

\* null and undefined where an annotation or a rectangle is expected
NoAnnotation == [id |-> 0]
NoRect == [width |-> -1]

min(a, b) == IF a < b THEN a ELSE b
max(a, b) == IF a < b THEN b ELSE a
abs(a) == IF a < 0 THEN -a ELSE a

Annotation(id, type, start, end, text, size) ==
    [id |-> id, type |-> type, rotation |-> 0, text |-> text, size |-> size,
     start |-> start, end |-> end]

\* JSON.stringify of Annotation[], the comparison of useHistory's deepEqual
StringifyAnnotation(a) ==
    <<"id", a.id, "type", a.type, "rotation", a.rotation, "text", a.text, "size", a.size,
      "start", a.start, "end", a.end>>
StringifyAnnotations(list) == [i \in 1..Len(list) |-> StringifyAnnotation(list[i])]

\* useHistory.set on Annotation[]: every handler calls it at most once, with the
\* state of its own render
setHistory(h, newState) ==
    IF StringifyAnnotations(newState) = StringifyAnnotations(h.present) THEN h
    ELSE History(Append(h.past, h.present), newState, <<>>)

\* history.find(a => a.id === id)
find(list, id) ==
    IF \E i \in 1..Len(list) : list[i].id = id
    THEN list[CHOOSE i \in 1..Len(list) : list[i].id = id /\ \A j \in 1..(i - 1) : list[j].id # id]
    ELSE NoAnnotation
\* history.map(a => a.id === ann.id ? ann : a)
replaceById(list, ann) == [i \in 1..Len(list) |-> IF list[i].id = ann.id THEN ann ELSE list[i]]
\* history.filter(a => a.id !== id)
RECURSIVE withoutId(_, _)
withoutId(list, id) ==
    IF list = <<>> THEN <<>>
    ELSE (IF Head(list).id = id THEN <<>> ELSE <<Head(list)>>) \o withoutId(Tail(list), id)

idsOf(list) == {list[i].id : i \in 1..Len(list)}
\* Date.now(): the millisecond clock never runs backwards; `tick` tells whether it
\* has advanced since it was last read
dateNow(an, tick) == IF tick THEN an.now + 1 ELSE an.now

getAnnotationBounds(a) ==
    IF a.type = "number"
    THEN [minX |-> a.start - a.size, maxX |-> a.start + a.size]
    ELSE [minX |-> min(a.start, a.end), maxX |-> max(a.start, a.end)]

\* Math.atan2(dy, dx) + Math.PI / 2 on the axis (dy = 0), in quarter turns; the
\* centre is (minX + maxX) / 2, or start for a number
rotationTo(ann, x) ==
    LET b == getAnnotationBounds(ann)
    IN IF 2 * x < b.minX + b.maxX THEN 3 ELSE 1

\* the label of the next badge: Math.max over parseInt of the labels on the
\* canvas, plus one; an annotation without a text (<<>>) is no badge
nextNumberByCount(list) ==
    Cardinality({j \in 1..Len(list) : list[j].type = "number" /\ list[j].text # <<>>}) + 1
nextNumber(list) ==
    LET existingNumbers ==
           {ParseInt(list[i].text) :
               i \in {j \in 1..Len(list) : list[j].type = "number" /\ list[j].text # <<>>}}
    IN IF existingNumbers = {} THEN 1
       ELSE (CHOOSE n \in existingNumbers : \A m \in existingNumbers : m <= n) + 1

\* the loop of handleMouseDown from the end of the list to the first annotation
\* that contains the point; `hits` are the places in the list of those that do
firstHit(list, hits) ==
    IF \E i \in hits : i \in 1..Len(list)
    THEN list[CHOOSE i \in hits : i \in 1..Len(list) /\ \A j \in hits : j \in 1..Len(list) => j >= i]
    ELSE NoAnnotation
topmostHit(list, hits) ==
    IF \E i \in hits : i \in 1..Len(list)
    THEN list[CHOOSE i \in hits : i \in 1..Len(list) /\ \A j \in hits : j \in 1..Len(list) => j <= i]
    ELSE NoAnnotation
\* history.find(a => a.id === id) contains the point
hitsId(list, hits, id) ==
    \E i \in hits : /\ i \in 1..Len(list) /\ list[i].id = id
                     /\ \A j \in 1..(i - 1) : list[j].id # id

\* the events the canvas can get in a state: a handle can be hit only where one is
\* drawn, an annotation only if it is on the canvas
MouseEvents(an) ==
    LET handles == IF an.tool = "crop"
                   THEN (IF an.cropRect # NoRect THEN {"e", "w"} ELSE {})
                   ELSE (IF find(an.history.present, an.selectedAnnotationId) # NoAnnotation
                         THEN HandleKeys ELSE {})
    IN [x : Points, handle : {Null} \cup handles, hits : SUBSET (1..Len(an.history.present))]

\* ---- handleMouseDown
mouseDown(an, e, tick) ==
    IF an.tool = "crop"
    THEN LET inside == /\ an.cropRect # NoRect
                       /\ e.x > an.cropRect.x /\ e.x < an.cropRect.x + an.cropRect.width
             started ==
                IF e.handle # Null
                THEN [an EXCEPT !.activeHandleKey = e.handle, !.currentAction = "resizing"]
                ELSE IF inside THEN [an EXCEPT !.currentAction = "moving"]
                ELSE [an EXCEPT !.currentAction = "cropping",
                                !.cropRect = [x |-> e.x, width |-> 0]]
         IN [started EXCEPT !.actionState =
                 [annotation |-> NoAnnotation, mousePos |-> e.x, cropRect |-> an.cropRect]]
    ELSE IF an.tool = "number"
    THEN LET newAnnotation == Annotation(dateNow(an, tick), "number", e.x, e.x + numberSize,
                                         StringOf(nextNumber(an.history.present)),
                                         numberSize)
         IN [an EXCEPT !.history = setHistory(@, Append(an.history.present, newAnnotation)),
                       !.now = newAnnotation.id]
    ELSE IF e.handle # Null
    THEN LET annotation == find(an.history.present, an.selectedAnnotationId)
         IN [an EXCEPT !.actionState =
                          [annotation |-> annotation, mousePos |-> e.x, cropRect |-> NoRect],
                       !.drawingAnnotation = annotation,
                       !.activeHandleKey = e.handle,
                       !.currentAction = IF e.handle = "rotate" THEN "rotating" ELSE "resizing"]
    ELSE LET clickedAnnotation == topmostHit(an.history.present, e.hits)
         IN IF clickedAnnotation # NoAnnotation /\ an.tool = "select"
            THEN [an EXCEPT !.selectedAnnotationId = clickedAnnotation.id,
                            !.currentAction = "moving",
                            !.actionState = [annotation |-> clickedAnnotation,
                                             mousePos |-> e.x, cropRect |-> NoRect],
                            !.drawingAnnotation = clickedAnnotation]
            ELSE IF an.tool # "select" /\ an.tool # "eraser"
            THEN [an EXCEPT !.selectedAnnotationId = 0,
                            !.currentAction = "drawing",
                            !.drawingAnnotation =
                                Annotation(dateNow(an, tick), an.tool, e.x, e.x, <<>>, 0),
                            !.now = dateNow(an, tick)]
            ELSE IF an.tool = "eraser" /\ clickedAnnotation # NoAnnotation
            THEN [an EXCEPT !.history =
                     setHistory(@, withoutId(an.history.present, clickedAnnotation.id))]
            ELSE [an EXCEPT !.selectedAnnotationId = 0]

\* ---- handleMouseMove
\* the crop tool: setCropRect
cropMoved(an, e) ==
    LET crop == an.cropRect
        startCrop == an.actionState.cropRect
    IN IF an.currentAction = "cropping"
       THEN [an EXCEPT !.cropRect = [crop EXCEPT !.width = e.x - crop.x]]
       ELSE IF an.currentAction = "moving"
       THEN [an EXCEPT !.cropRect =
                [startCrop EXCEPT !.x = startCrop.x + (e.x - an.actionState.mousePos)]]
       ELSE IF an.currentAction = "resizing" /\ an.activeHandleKey # Null
       THEN [an EXCEPT !.cropRect =
                IF an.activeHandleKey = "e" THEN [crop EXCEPT !.width = e.x - crop.x]
                ELSE [x |-> e.x, width |-> crop.width + (crop.x - e.x)]]
       ELSE an

\* no gesture: setCanvasCursor
hovered(an, e) ==
    LET toolCursor == IF an.tool = "select" THEN "grab"
                      ELSE IF an.tool \in {"rectangle", "number", "eraser"} THEN "crosshair"
                      ELSE "default"
        selectedAnn == find(an.history.present, an.selectedAnnotationId)
        newCursor == IF selectedAnn = NoAnnotation THEN toolCursor
                     ELSE IF e.handle = "rotate" THEN "grab"
                     ELSE IF e.handle # Null THEN "ew-resize"
                     ELSE IF hitsId(an.history.present, e.hits, selectedAnn.id) THEN "move"
                     ELSE toolCursor
    IN [an EXCEPT !.canvasCursor = newCursor]

\* a gesture: what is handed to setDrawingAnnotation
draftMoved(an, e) ==
    LET ann == an.actionState.annotation
        draft == an.drawingAnnotation
    IN IF an.currentAction = "moving"
       THEN LET dx == e.x - an.actionState.mousePos
            IN [ann EXCEPT !.start = ann.start + dx, !.end = ann.end + dx]
       ELSE IF an.currentAction = "rotating"
       THEN [draft EXCEPT !.rotation = rotationTo(ann, e.x)]
       ELSE IF an.currentAction = "resizing" /\ an.activeHandleKey # Null
       THEN IF ann.type = "number"
            THEN [draft EXCEPT !.size = max(MinNumberSize, abs(e.x - ann.start))]
            ELSE IF an.activeHandleKey = "rotate" THEN draft
            ELSE LET b == getAnnotationBounds(ann)
                     pivot == IF an.activeHandleKey = "e" THEN b.minX ELSE b.maxX
                 IN [draft EXCEPT !.start = min(pivot, e.x), !.end = max(pivot, e.x)]
       ELSE IF an.currentAction = "drawing"
       THEN [draft EXCEPT !.end = e.x]
       ELSE draft

mouseMoveCommits(an, e) ==
    IF an.tool = "crop" /\ an.cropRect # NoRect THEN cropMoved(an, e)
    ELSE IF an.currentAction = "none" \/ an.drawingAnnotation = NoAnnotation THEN hovered(an, e)
    ELSE LET draft == draftMoved(an, e)
         IN [an EXCEPT !.drawingAnnotation = draft,
                       !.history = setHistory(@, replaceById(an.history.present, draft))]
mouseMove(an, e) ==
    IF an.tool = "crop" /\ an.cropRect # NoRect THEN cropMoved(an, e)
    ELSE IF an.currentAction = "none" \/ an.drawingAnnotation = NoAnnotation THEN hovered(an, e)
    ELSE [an EXCEPT !.drawingAnnotation = draftMoved(an, e)]

\* ---- handleMouseUp
mouseUpAppendsAlways(an) ==
    IF an.tool = "crop" THEN [an EXCEPT !.currentAction = "none", !.activeHandleKey = Null]
    ELSE IF an.drawingAnnotation = NoAnnotation
    THEN [an EXCEPT !.currentAction = "none", !.activeHandleKey = Null]
    ELSE [an EXCEPT !.history = setHistory(@, Append(an.history.present, an.drawingAnnotation)),
                    !.drawingAnnotation = NoAnnotation,
                    !.currentAction = "none", !.activeHandleKey = Null]
mouseUp(an) ==
    IF an.tool = "crop"
    THEN LET crop == an.cropRect
             newCropRect == [x |-> IF crop.width < 0 THEN crop.x + crop.width ELSE crop.x,
                             width |-> abs(crop.width)]
             cropped == IF an.currentAction = "cropping" /\ crop # NoRect
                        THEN [an EXCEPT !.cropRect = IF newCropRect.width < MinCrop
                                                     THEN NoRect ELSE newCropRect]
                        ELSE an
         IN [cropped EXCEPT !.currentAction = "none", !.activeHandleKey = Null]
    ELSE LET draft == an.drawingAnnotation
             committed ==
                IF draft = NoAnnotation THEN an
                ELSE IF an.currentAction = "drawing"
                THEN [an EXCEPT !.history = setHistory(@, Append(an.history.present, draft)),
                                !.tool = "select",
                                !.selectedAnnotationId = draft.id,
                                !.drawingAnnotation = NoAnnotation]
                ELSE IF an.currentAction \in {"moving", "resizing", "rotating"}
                THEN [an EXCEPT !.history =
                                   setHistory(@, replaceById(an.history.present, draft)),
                                !.drawingAnnotation = NoAnnotation]
                ELSE [an EXCEPT !.drawingAnnotation = NoAnnotation]
         IN [committed EXCEPT !.currentAction = "none", !.activeHandleKey = Null]

\* ---- handleDeleteSelected
deleteSelected(an) ==
    IF an.selectedAnnotationId = 0 THEN an
    ELSE [an EXCEPT !.history =
                       setHistory(@, withoutId(an.history.present, an.selectedAnnotationId)),
                    !.selectedAnnotationId = 0]

\* the annotator as it mounts; `now` is the clock as Date.now() last read it
closedAnnotator ==
    [annotatingImageIndex |-> -1, history |-> reset(<<>>), tool |-> "select",
     currentAction |-> "none", activeHandleKey |-> Null, selectedAnnotationId |-> 0,
     drawingAnnotation |-> NoAnnotation, cropRect |-> NoRect,
     actionState |-> [annotation |-> NoAnnotation, mousePos |-> 0, cropRect |-> NoRect],
     canvasCursor |-> "default",
     now |-> 1]

\* ------------------------------------------------------------------ inputs
\* what the user can type and what the provider can answer
Titles == {"T"}
EditedTexts == {<<"E">>}
RegeneratedTexts == {<<"R">>}
Placeholder == <<"#">>
IncrementalResults == {<<TextStep(<<"N">>), ImageStep(Placeholder)>>}

\* the provider's answer: one block per screenshot, or a single text step
RECURSIVE perImageSteps(_, _)
perImageSteps(k, n) ==
    IF k > n THEN <<>>
    ELSE <<TextStep(<<"S", Digits[k]>>), ImageStep(StringOf(k))>> \o perImageSteps(k + 1, n)
GeneratedDocs(n) ==
    {Doc("G", perImageSteps(1, n)), Doc("G", <<TextStep(<<"S">>)>>)}

\* guides of up to MaxBlocks blocks: block b has text "S<b>" and sh[b] screenshots,
\* the screenshots numbered in document order
RECURSIVE sumOf(_)
sumOf(sh) == IF sh = <<>> THEN 0 ELSE sh[1] + sumOf(Tail(sh))
Shapes == {sh \in UNION {[1..n -> 0..MaxImages] : n \in 1..MaxBlocks} : sumOf(sh) <= MaxImages}
RECURSIVE shapeSteps(_, _, _)
shapeSteps(sh, b, nextImage) ==
    IF b > Len(sh) THEN <<>>
    ELSE <<TextStep(<<"S", Digits[b]>>)>>
         \o [k \in 1..sh[b] |-> ImageStep(StringOf(nextImage + k - 1))]
         \o shapeSteps(sh, b + 1, nextImage + sh[b])
BlockDocs == {Doc("G", shapeSteps(sh, 1, 1)) : sh \in Shapes}

\* the upload queue holds distinct files sorted by lastModified (ImageUploader
\* sorts on every add); a file is named by its rank
RECURSIVE sortedSeq(_)
sortedSeq(S) ==
    IF S = {} THEN <<>>
    ELSE LET m == CHOOSE x \in S : \A y \in S : x <= y
         IN <<m>> \o sortedSeq(S \ {m})
Queues == {sortedSeq(S) : S \in SUBSET (1..MaxImages)}

\* ------------------------------------------------------------------ state
VARIABLES
    hist,                   \* useHistory's state {past, present, future}
    images,                 \* File[]
    isLoading, isMerging, regeneratingIndex, isSaving,
    error,
    currentSessionId,       \* 0 for null
    sessions,               \* ids of the sessions list shown
    db,                     \* ids stored in IndexedDB
    isGenerateConfirmOpen, isSettingsOpen,
    hasApiKey,              \* apiKeys[selectedModel] is set
    calls,                  \* async handlers waiting on an await
    editingIndex,           \* InstructionDisplay state; -1 for null
    selectedIndices, draggedIndex, dragOverIndex,
    lastOp,                 \* the handler that ran last and what it passed to the history
    pre,                    \* hist before that handler ran
    annotator,              \* annotatingImageIndex and the state of ImageAnnotator
    gesture,                \* the undo entries at the last pointer-down, and the
                            \* pointer moves of the gesture since
    autoSave,               \* the auto-save interval and localStorage['auto-saved-session']
    main                    \* the globals of the Electron main process, its overlay
                            \* windows and its mouse-hook helper processes

vars == <<hist, images, isLoading, isMerging, regeneratingIndex, isSaving, error,
          currentSessionId, sessions, db, isGenerateConfirmOpen, isSettingsOpen,
          hasApiKey, calls, editingIndex, selectedIndices, draggedIndex, dragOverIndex,
          lastOp, pre, annotator, gesture, autoSave, main>>

appFlags == <<isLoading, isMerging, regeneratingIndex, isSaving>>
sessionVars == <<currentSessionId, sessions, db>>
modalVars == <<isGenerateConfirmOpen, isSettingsOpen, hasApiKey>>
dragVars == <<draggedIndex, dragOverIndex>>
annotVars == <<annotator, gesture>>

\* The auto-save effect of App runs on [isModified, documentState, images]: each run
\* clears the interval of the run before and sets one of AutoSavePeriod ticks.
\* `deps` is what the interval now counting was set for, `elapsed` the ticks it
\* has counted, `stored` the session in localStorage (title Null for none).
AutoSavePeriod == 2
NoStored == [title |-> Null, steps |-> <<>>, images |-> <<>>]
autoSaveUnarmed == [deps |-> <<>>, elapsed |-> 0, stored |-> NoStored]

\* The main process before recording was ever enabled: main.js 107-114. Overlay
\* windows and helper processes are numbered in the order they are created; 0 is
\* null. The main window stays open throughout.
MOUSE_HOOK_THROTTLE_MS == 450
Displays == {1, 2}
mainOn(platform) ==
    [platform |-> platform,
     recordingActive |-> FALSE, isCapturing |-> FALSE,
     awaiting |-> "none",               \* the await handleCaptureRequest is parked on
     displays |-> {1},                  \* screen.getAllDisplays()
     overlayWindows |-> [d \in Displays |-> 0],
     windows |-> <<>>,                  \* every overlay BrowserWindow created so far
     mouseHookProcess |-> 0, mouseHookInterface |-> 0,
     helpers |-> <<>>,                  \* every helper process spawned so far
     readers |-> {},                    \* the helpers whose readline interface is open
     lastNativeCaptureAt |-> 0,
     now |-> MOUSE_HOOK_THROTTLE_MS,    \* Date.now(), counted from a time past the throttle
     clicks |-> 0,                      \* clicks reported while recording was active
     sent |-> 0,                        \* 'recording:screenshot' messages sent
     source |-> "none"]                 \* the source field of the last one
mainIdle == mainOn("win32")

documentState == hist.present
title == hist.present.title
instructionSteps == hist.present.steps
isModified == canUndo(hist)

\* name: the handler; h: the useHistory callback it called ("none" if none);
\* arg: the document passed to it; input: what the handler worked on (indices, a file)
OpWith(name, h, arg, input) == [name |-> name, h |-> h, arg |-> arg, input |-> input]
Op(name, h, arg) == OpWith(name, h, arg, <<>>)

\* InstructionDisplay's effect on [steps]: a new step list clears the selection
selectionAfter(newSteps) == IF newSteps = instructionSteps THEN selectedIndices ELSE <<>>

\* the modals are full-screen overlays above every other control
overlayOpen == isSettingsOpen \/ isGenerateConfirmOpen
\* InstructionDisplay renders the guide (not LoadingState or EmptyState)
displayShown == ~overlayOpen /\ ~(isLoading \/ isMerging) /\ Len(instructionSteps) > 0
dragging == draggedIndex # -1

Init ==
    /\ hist = reset(EmptyDoc)
    /\ images = <<>>
    /\ isLoading = FALSE /\ isMerging = FALSE /\ regeneratingIndex = -1 /\ isSaving = FALSE
    /\ error = Null
    /\ currentSessionId = 0 /\ sessions = {} /\ db = {}
    /\ isGenerateConfirmOpen = FALSE
    /\ hasApiKey \in BOOLEAN
    /\ isSettingsOpen = TRUE      \* the mount effect reads the initial, empty apiKeys
    /\ calls = <<>>
    /\ editingIndex = -1
    /\ selectedIndices = <<>> /\ draggedIndex = -1 /\ dragOverIndex = -1
    /\ lastOp = Op("init", "none", EmptyDoc)
    /\ pre = reset(EmptyDoc)
    /\ annotator = closedAnnotator /\ gesture = [past |-> 0, moves |-> 0]
    /\ autoSave = autoSaveUnarmed
    /\ main = mainIdle

\* ------------------------------------------------------------------ synchronous handlers
\* every handler of a render calls the useHistory callbacks of that render, whose
\* `state` is the current hook state
CommitWith(name, newDoc, input) ==
    /\ Len(hist.past) < MaxPast
    /\ hist' = set(hist, hist, newDoc)
    /\ selectedIndices' = selectionAfter(newDoc.steps)
    /\ lastOp' = OpWith(name, "set", newDoc, input)
    /\ pre' = hist /\ UNCHANGED <<autoSave, main>> /\ UNCHANGED annotVars
Commit(name, newDoc) == CommitWith(name, newDoc, <<>>)

handleTitleChange(newTitle) ==
    /\ displayShown /\ ~dragging
    /\ Commit("handleTitleChange", [documentState EXCEPT !.title = newTitle])
    /\ UNCHANGED <<images, appFlags, error, sessionVars, modalVars, calls, editingIndex, dragVars>>

handleStartEditing(index) ==
    /\ displayShown /\ ~dragging
    /\ index \in TextIndices(instructionSteps)
    /\ index # editingIndex
    /\ editingIndex' = index
    /\ lastOp' = Op("handleStartEditing", "none", EmptyDoc)
    /\ UNCHANGED <<hist, images, appFlags, error, sessionVars, modalVars, calls,
                   selectedIndices, dragVars>>
    /\ pre' = hist /\ UNCHANGED <<autoSave, main>> /\ UNCHANGED annotVars

\* the StepEditor is mounted for the block whose text step is at editingIndex
editorOpen == displayShown /\ editingIndex \in TextIndices(instructionSteps)

\* StepEditor.handleSave with the textarea's content
handleSave(editedContent) ==
    /\ editorOpen /\ ~dragging
    /\ regeneratingIndex # editingIndex
    /\ Commit("handleSave",
              [documentState EXCEPT !.steps[editingIndex + 1].content = editedContent])
    /\ editingIndex' = -1
    /\ UNCHANGED <<images, appFlags, error, sessionVars, modalVars, calls, dragVars>>

handleCancelEditing ==
    /\ editorOpen /\ ~dragging
    /\ regeneratingIndex # editingIndex
    /\ editingIndex' = -1
    /\ lastOp' = Op("handleCancelEditing", "none", EmptyDoc)
    /\ UNCHANGED <<hist, images, appFlags, error, sessionVars, modalVars, calls,
                   selectedIndices, dragVars>>
    /\ pre' = hist /\ UNCHANGED <<autoSave, main>> /\ UNCHANGED annotVars

\* the Undo button, or Ctrl+Z, which the confirm dialog does not intercept
undoPressed ==
    /\ ~isSettingsOpen /\ ~dragging
    /\ hist' = undo(hist)
    /\ selectedIndices' = selectionAfter(hist'.present.steps)
    /\ lastOp' = Op("undo", "undo", EmptyDoc)
    /\ UNCHANGED <<images, appFlags, error, sessionVars, modalVars, calls, editingIndex, dragVars>>
    /\ pre' = hist /\ UNCHANGED <<autoSave, main>> /\ UNCHANGED annotVars

redoPressed ==
    /\ ~isSettingsOpen /\ ~dragging
    /\ hist' = redo(hist)
    /\ selectedIndices' = selectionAfter(hist'.present.steps)
    /\ lastOp' = Op("redo", "redo", EmptyDoc)
    /\ UNCHANGED <<images, appFlags, error, sessionVars, modalVars, calls, editingIndex, dragVars>>
    /\ pre' = hist /\ UNCHANGED <<autoSave, main>> /\ UNCHANGED annotVars

handleNewSession ==
    /\ ~overlayOpen /\ ~dragging
    /\ images' = <<>>
    /\ hist' = reset(EmptyDoc)
    /\ currentSessionId' = 0
    /\ error' = Null
    /\ selectedIndices' = selectionAfter(<<>>)
    /\ lastOp' = Op("handleNewSession", "reset", EmptyDoc)
    /\ UNCHANGED <<appFlags, sessions, db, modalVars, calls, editingIndex, dragVars>>
    /\ pre' = hist /\ UNCHANGED <<autoSave, main>> /\ UNCHANGED annotVars

\* ImageUploader hands over the new queue (a file added or removed)
handleImagesChange(files) ==
    /\ ~overlayOpen /\ ~dragging
    /\ files # images
    /\ \/ \E f \in 1..MaxImages : ~Includes(images, f) /\ files = sortedSeq({images[k] : k \in 1..Len(images)} \cup {f})
       \/ \E k \in 1..Len(images) : files = removeAt(images, k - 1)
    /\ hist' = IF Len(instructionSteps) > 0 THEN hist ELSE reset(EmptyDoc)
    /\ images' = files
    /\ error' = Null
    /\ selectedIndices' = selectionAfter(hist'.present.steps)
    /\ lastOp' = IF Len(instructionSteps) > 0
                 THEN Op("handleImagesChange", "none", EmptyDoc)
                 ELSE Op("handleImagesChange", "reset", EmptyDoc)
    /\ UNCHANGED <<appFlags, sessionVars, modalVars, calls, editingIndex, dragVars>>
    /\ pre' = hist /\ UNCHANGED <<autoSave, main>> /\ UNCHANGED annotVars

\* SettingsModal.handleSave: the keys are stored, the modal stays open
handleApiKeysSave(hasKey) ==
    /\ isSettingsOpen
    /\ hasKey # hasApiKey
    /\ hasApiKey' = hasKey
    /\ lastOp' = Op("handleApiKeysSave", "none", EmptyDoc)
    /\ UNCHANGED <<hist, images, appFlags, error, sessionVars, isGenerateConfirmOpen,
                   isSettingsOpen, calls, editingIndex, selectedIndices, dragVars>>
    /\ pre' = hist /\ UNCHANGED <<autoSave, main>> /\ UNCHANGED annotVars

closeSettings ==
    /\ isSettingsOpen
    /\ isSettingsOpen' = FALSE
    /\ lastOp' = Op("closeSettings", "none", EmptyDoc)
    /\ UNCHANGED <<hist, images, appFlags, error, sessionVars, isGenerateConfirmOpen, hasApiKey,
                   calls, editingIndex, selectedIndices, dragVars>>
    /\ pre' = hist /\ UNCHANGED <<autoSave, main>> /\ UNCHANGED annotVars

\* ------------------------------------------------------------------ async handlers
Call(kind, phase, stepIndex, pending) ==
    [kind |-> kind, phase |-> phase, state |-> hist, images |-> images,
     stepIndex |-> stepIndex, session |-> currentSessionId, pending |-> pending,
     results |-> <<>>]

\* the model starts a call only while it has room for the call and for its commit
canStartCall == Len(calls) < MaxCalls /\ Len(hist.past) < MaxPast

\* generateAll up to its await; a missing key or an empty queue ends it at once
generateAll ==
    IF ~hasApiKey
    THEN /\ error' = "Please set your API key"
         /\ isSettingsOpen' = TRUE
         /\ UNCHANGED <<isLoading, calls>>
    ELSE IF Len(images) = 0
    THEN /\ error' = "Please upload at least one screenshot."
         /\ UNCHANGED <<isLoading, calls, isSettingsOpen>>
    ELSE /\ canStartCall
         /\ isLoading' = TRUE
         /\ error' = Null
         /\ calls' = Append(calls, Call("generate", "llm", -1, {}))
         /\ UNCHANGED isSettingsOpen

imagesInUseCount == Cardinality({instructionSteps[k].content :
                                   k \in {j \in 1..Len(instructionSteps) : instructionSteps[j].type = "image"}})
canMerge == Len(instructionSteps) > 0 /\ Len(images) > imagesInUseCount

\* the Generate button (shown when canMerge is false)
handleGenerate ==
    /\ ~overlayOpen /\ ~dragging
    /\ ~canMerge
    /\ ~(isLoading \/ isMerging \/ Len(images) = 0)
    /\ IF Len(instructionSteps) > 0
       THEN /\ isGenerateConfirmOpen' = TRUE
            /\ UNCHANGED <<isLoading, calls, error, isSettingsOpen>>
       ELSE /\ generateAll
            /\ UNCHANGED isGenerateConfirmOpen
    /\ lastOp' = Op("handleGenerate", "none", EmptyDoc)
    /\ UNCHANGED <<hist, images, isMerging, regeneratingIndex, isSaving, sessionVars, hasApiKey,
                   editingIndex, selectedIndices, dragVars>>
    /\ pre' = hist /\ UNCHANGED <<autoSave, main>> /\ UNCHANGED annotVars

handleConfirmGenerate ==
    /\ isGenerateConfirmOpen
    /\ isGenerateConfirmOpen' = FALSE
    /\ generateAll
    /\ lastOp' = Op("handleConfirmGenerate", "none", EmptyDoc)
    /\ UNCHANGED <<hist, images, isMerging, regeneratingIndex, isSaving, sessionVars, hasApiKey,
                   editingIndex, selectedIndices, dragVars>>
    /\ pre' = hist /\ UNCHANGED <<autoSave, main>> /\ UNCHANGED annotVars

handleCancelGenerate ==
    /\ isGenerateConfirmOpen
    /\ isGenerateConfirmOpen' = FALSE
    /\ lastOp' = Op("handleCancelGenerate", "none", EmptyDoc)
    /\ UNCHANGED <<hist, images, appFlags, error, sessionVars, isSettingsOpen, hasApiKey, calls,
                   editingIndex, selectedIndices, dragVars>>
    /\ pre' = hist /\ UNCHANGED <<autoSave, main>> /\ UNCHANGED annotVars

\* generateAll after its await: the provider answered with `result`
generateResolvedAsEdit(c, result) ==
    /\ c \in 1..Len(calls) /\ calls[c].kind = "generate"
    /\ result \in GeneratedDocs(Len(calls[c].images))
    /\ hist' = History(Append(hist.past, hist.present), result, <<>>)
    /\ isLoading' = FALSE
    /\ calls' = removeAt(calls, c - 1)
    /\ selectedIndices' = selectionAfter(result.steps)
    /\ lastOp' = Op("generateResolved", "reset", result)
    /\ UNCHANGED <<images, isMerging, regeneratingIndex, isSaving, error, sessionVars, modalVars,
                   editingIndex, dragVars>>
    /\ pre' = hist /\ UNCHANGED <<autoSave, main>> /\ UNCHANGED annotVars
generateResolved(c, result) ==
    /\ c \in 1..Len(calls) /\ calls[c].kind = "generate"
    /\ result \in GeneratedDocs(Len(calls[c].images))
    /\ hist' = reset(result)
    /\ isLoading' = FALSE
    /\ calls' = removeAt(calls, c - 1)
    /\ selectedIndices' = selectionAfter(result.steps)
    /\ lastOp' = Op("generateResolved", "reset", result)
    /\ UNCHANGED <<images, isMerging, regeneratingIndex, isSaving, error, sessionVars, modalVars,
                   editingIndex, dragVars>>
    /\ pre' = hist /\ UNCHANGED <<autoSave, main>> /\ UNCHANGED annotVars

generateRejectedClears(c) ==
    /\ c \in 1..Len(calls) /\ calls[c].kind = "generate"
    /\ error' = "provider error"
    /\ isLoading' = FALSE
    /\ calls' = removeAt(calls, c - 1)
    /\ hist' = reset(EmptyDoc)
    /\ lastOp' = Op("generateRejected", "none", EmptyDoc)
    /\ UNCHANGED <<images, isMerging, regeneratingIndex, isSaving, sessionVars, modalVars,
                   editingIndex, selectedIndices, dragVars>>
    /\ pre' = hist /\ UNCHANGED <<autoSave, main>> /\ UNCHANGED annotVars
generateRejected(c) ==
    /\ c \in 1..Len(calls) /\ calls[c].kind = "generate"
    /\ error' = "provider error"
    /\ isLoading' = FALSE
    /\ calls' = removeAt(calls, c - 1)
    /\ lastOp' = Op("generateRejected", "none", EmptyDoc)
    /\ UNCHANGED <<hist, images, isMerging, regeneratingIndex, isSaving, sessionVars, modalVars,
                   editingIndex, selectedIndices, dragVars>>
    /\ pre' = hist /\ UNCHANGED <<autoSave, main>> /\ UNCHANGED annotVars

\* StepEditor.handleRegenerate -> App.handleRegenerateStep up to its await
handleRegenerateStep ==
    /\ editorOpen /\ ~dragging
    /\ regeneratingIndex # editingIndex
    /\ IF ~hasApiKey
       THEN /\ error' = "Please set your API key"
            /\ isSettingsOpen' = TRUE
            /\ UNCHANGED <<regeneratingIndex, calls>>
       ELSE /\ canStartCall
            /\ regeneratingIndex' = editingIndex
            /\ error' = Null
            /\ calls' = Append(calls, Call("regen", "llm", editingIndex, {}))
            /\ UNCHANGED isSettingsOpen
    /\ lastOp' = Op("handleRegenerateStep", "none", EmptyDoc)
    /\ UNCHANGED <<hist, images, isLoading, isMerging, isSaving, sessionVars,
                   isGenerateConfirmOpen, hasApiKey, editingIndex, selectedIndices, dragVars>>
    /\ pre' = hist /\ UNCHANGED <<autoSave, main>> /\ UNCHANGED annotVars

\* after the await: instructionSteps, documentState and setDocumentState are those
\* of the render in which the handler was created
regenerateResolved(c, newContent) ==
    /\ c \in 1..Len(calls) /\ calls[c].kind = "regen"
    /\ LET snap == calls[c].state
           newDoc == [snap.present EXCEPT !.steps[calls[c].stepIndex + 1].content = newContent]
       IN /\ hist' = set(snap, hist, newDoc)
          /\ selectedIndices' = selectionAfter(hist'.present.steps)
          /\ lastOp' = Op("regenerateResolved", "set", newDoc)
    /\ regeneratingIndex' = -1
    /\ calls' = removeAt(calls, c - 1)
    /\ UNCHANGED <<images, isLoading, isMerging, isSaving, error, sessionVars, modalVars,
                   editingIndex, dragVars>>
    /\ pre' = hist /\ UNCHANGED <<autoSave, main>> /\ UNCHANGED annotVars

regenerateRejectedKeepsFlag(c) ==
    /\ c \in 1..Len(calls) /\ calls[c].kind = "regen"
    /\ error' = "provider error"
    /\ calls' = removeAt(calls, c - 1)
    /\ lastOp' = Op("regenerateRejected", "none", EmptyDoc)
    /\ UNCHANGED <<hist, images, isLoading, isMerging, regeneratingIndex, isSaving, sessionVars,
                   modalVars, editingIndex, selectedIndices, dragVars>>
    /\ pre' = hist /\ UNCHANGED <<autoSave, main>> /\ UNCHANGED annotVars
regenerateRejected(c) ==
    /\ c \in 1..Len(calls) /\ calls[c].kind = "regen"
    /\ error' = "provider error"
    /\ regeneratingIndex' = -1
    /\ calls' = removeAt(calls, c - 1)
    /\ lastOp' = Op("regenerateRejected", "none", EmptyDoc)
    /\ UNCHANGED <<hist, images, isLoading, isMerging, isSaving, sessionVars, modalVars,
                   editingIndex, selectedIndices, dragVars>>
    /\ pre' = hist /\ UNCHANGED <<autoSave, main>> /\ UNCHANGED annotVars
\* ---- handleMergeInstructions
Put(m, k, v) == [x \in (DOMAIN m) \cup {k} |-> IF x = k THEN v ELSE m[x]]

imageStepsOf(steps) == {k \in 1..Len(steps) : steps[k].type = "image"}
existingImageIndices(steps) == {ImageIndexOf(steps[k]) : k \in imageStepsOf(steps)}
newImagesToProcess(steps, imgs) == {i \in 0..(Len(imgs) - 1) : i \notin existingImageIndices(steps)}

\* the forEach that fills existingBlocks, then the flush after it
RECURSIVE existingBlocksFrom(_, _, _, _, _)
existingBlocksFrom(steps, k, map, currentBlock, currentImageIndex) ==
    IF k > Len(steps)
    THEN IF Len(currentBlock) > 0 /\ currentImageIndex # -1
         THEN Put(map, currentImageIndex, currentBlock) ELSE map
    ELSE LET step == steps[k]
             flush == step.type = "text" /\ Len(currentBlock) > 0
             map1 == IF flush /\ currentImageIndex # -1
                     THEN Put(map, currentImageIndex, currentBlock) ELSE map
             block1 == Append(IF flush THEN <<>> ELSE currentBlock, step)
             index1 == IF step.type = "image" THEN ImageIndexOf(step)
                       ELSE IF flush THEN -1 ELSE currentImageIndex
         IN existingBlocksFrom(steps, k + 1, map1, block1, index1)
existingBlocks(steps) == existingBlocksFrom(steps, 1, <<>>, <<>>, -1)

\* result.steps.map(step => step.type === 'image' ? {...step, content: String(index + 1)} : step)
processedSteps(resultSteps, index) ==
    [k \in 1..Len(resultSteps) |->
        IF resultSteps[k].type = "image"
        THEN [resultSteps[k] EXCEPT !.content = StringOf(index + 1)]
        ELSE resultSteps[k]]

RECURSIVE finalStepsFrom(_, _, _, _)
finalStepsFrom(i, n, existing, generated) ==
    IF i >= n THEN <<>>
    ELSE (IF i \in DOMAIN existing THEN existing[i]
          ELSE IF i \in DOMAIN generated THEN generated[i] ELSE <<>>)
         \o finalStepsFrom(i + 1, n, existing, generated)
finalSteps(steps, imgs, generated) == finalStepsFrom(0, Len(imgs), existingBlocks(steps), generated)

\* the Add & Merge button (shown when canMerge), up to `await Promise.all`
handleMergeInstructions ==
    /\ ~overlayOpen /\ ~dragging
    /\ canMerge
    /\ ~(isMerging \/ isLoading)
    /\ IF ~hasApiKey
       THEN /\ error' = "Please set your API key"
            /\ isSettingsOpen' = TRUE
            /\ UNCHANGED <<isMerging, calls>>
       ELSE IF newImagesToProcess(instructionSteps, images) = {}
       THEN /\ error' = "No new images to merge."
            /\ isMerging' = FALSE
            /\ UNCHANGED <<isSettingsOpen, calls>>
       ELSE /\ canStartCall
            /\ isMerging' = TRUE
            /\ error' = Null
            /\ calls' = Append(calls, Call("merge", "llm", -1,
                                           newImagesToProcess(instructionSteps, images)))
            /\ UNCHANGED isSettingsOpen
    /\ lastOp' = Op("handleMergeInstructions", "none", EmptyDoc)
    /\ UNCHANGED <<hist, images, isLoading, regeneratingIndex, isSaving, sessionVars,
                   isGenerateConfirmOpen, hasApiKey, editingIndex, selectedIndices, dragVars>>
    /\ pre' = hist /\ UNCHANGED <<autoSave, main>> /\ UNCHANGED annotVars

\* one generateIncrementalInstruction call resolves; the last one resolves Promise.all
mergeImageResolved(c, index, result) ==
    /\ c \in 1..Len(calls) /\ calls[c].kind = "merge"
    /\ index \in calls[c].pending
    /\ result \in IncrementalResults
    /\ LET generated == Put(calls[c].results, index, processedSteps(result, index))
           snap == calls[c].state
           newDoc == [snap.present EXCEPT
                        !.steps = finalSteps(snap.present.steps, calls[c].images, generated)]
       IN IF calls[c].pending = {index}
          THEN /\ hist' = set(snap, hist, newDoc)
               /\ selectedIndices' = selectionAfter(hist'.present.steps)
               /\ isMerging' = FALSE
               /\ calls' = removeAt(calls, c - 1)
               /\ lastOp' = Op("mergeResolved", "set", newDoc)
          ELSE /\ calls' = [calls EXCEPT ![c].pending = @ \ {index}, ![c].results = generated]
               /\ lastOp' = Op("mergeImageResolved", "none", EmptyDoc)
               /\ UNCHANGED <<hist, selectedIndices, isMerging>>
    /\ UNCHANGED <<images, isLoading, regeneratingIndex, isSaving, error, sessionVars, modalVars,
                   editingIndex, dragVars>>
    /\ pre' = hist /\ UNCHANGED <<autoSave, main>> /\ UNCHANGED annotVars

\* one call rejects: Promise.all rejects, the other results are never read
mergeImageRejected(c, index) ==
    /\ c \in 1..Len(calls) /\ calls[c].kind = "merge"
    /\ index \in calls[c].pending
    /\ error' = "provider error"
    /\ isMerging' = FALSE
    /\ calls' = removeAt(calls, c - 1)
    /\ lastOp' = Op("mergeRejected", "none", EmptyDoc)
    /\ UNCHANGED <<hist, images, isLoading, regeneratingIndex, isSaving, sessionVars, modalVars,
                   editingIndex, selectedIndices, dragVars>>
    /\ pre' = hist /\ UNCHANGED <<autoSave, main>> /\ UNCHANGED annotVars

\* ---- handleSaveSession
\* the Save button, up to the first await: updateSession or addSession when there
\* is something to write ("db"), else loadSessions ("reload")
handleSaveSession ==
    /\ ~overlayOpen /\ ~dragging
    /\ ~(isSaving \/ ~isModified)
    /\ IF title = "" /\ Len(instructionSteps) = 0
       THEN /\ error' = "Please generate instructions before saving."
            /\ UNCHANGED <<isSaving, calls>>
       ELSE /\ canStartCall
            /\ currentSessionId = 0 => Cardinality(db) < MaxSessions
            /\ isSaving' = TRUE
            /\ error' = Null
            /\ calls' = Append(calls,
                   Call("save", IF currentSessionId # 0 /\ currentSessionId \notin sessions
                                THEN "reload" ELSE "db", -1, {}))
    /\ lastOp' = Op("handleSaveSession", "none", EmptyDoc)
    /\ UNCHANGED <<hist, images, isLoading, isMerging, regeneratingIndex, sessionVars, modalVars,
                   editingIndex, selectedIndices, dragVars>>
    /\ pre' = hist /\ UNCHANGED <<autoSave, main>> /\ UNCHANGED annotVars

\* db.updateSession / db.addSession resolved; loadSessions is awaited next
saveStored(c) ==
    /\ c \in 1..Len(calls) /\ calls[c].kind = "save" /\ calls[c].phase = "db"
    /\ IF calls[c].session # 0
       THEN UNCHANGED <<db, currentSessionId>>
       ELSE LET newId == Cardinality(db) + 1
            IN db' = db \cup {newId} /\ currentSessionId' = newId
    /\ calls' = [calls EXCEPT ![c].phase = "reload"]
    /\ lastOp' = Op("saveStored", "none", EmptyDoc)
    /\ UNCHANGED <<hist, images, appFlags, error, sessions, modalVars, editingIndex,
                   selectedIndices, dragVars>>
    /\ pre' = hist /\ UNCHANGED <<autoSave, main>> /\ UNCHANGED annotVars

saveRejected(c) ==
    /\ c \in 1..Len(calls) /\ calls[c].kind = "save" /\ calls[c].phase = "db"
    /\ error' = "Failed to save the session."
    /\ isSaving' = FALSE
    /\ calls' = removeAt(calls, c - 1)
    /\ lastOp' = Op("saveRejected", "none", EmptyDoc)
    /\ UNCHANGED <<hist, images, isLoading, isMerging, regeneratingIndex, sessionVars, modalVars,
                   editingIndex, selectedIndices, dragVars>>
    /\ pre' = hist /\ UNCHANGED <<autoSave, main>> /\ UNCHANGED annotVars

\* loadSessions settled (it catches its own failure), then
\* resetDocumentState(documentState) with the documentState of the handler's render
saveReloaded(c, listed) ==
    /\ c \in 1..Len(calls) /\ calls[c].kind = "save" /\ calls[c].phase = "reload"
    /\ IF listed
       THEN sessions' = db /\ UNCHANGED error
       ELSE error' = "Could not load saved sessions." /\ UNCHANGED sessions
    /\ hist' = reset(calls[c].state.present)
    /\ selectedIndices' = selectionAfter(hist'.present.steps)
    /\ isSaving' = FALSE
    /\ calls' = removeAt(calls, c - 1)
    /\ lastOp' = Op("saveReloaded", "reset", calls[c].state.present)
    /\ UNCHANGED <<images, isLoading, isMerging, regeneratingIndex, currentSessionId, db,
                   modalVars, editingIndex, dragVars>>
    /\ pre' = hist /\ UNCHANGED <<autoSave, main>> /\ UNCHANGED annotVars
\* ---- handleLoadSession
\* what db.getSession can return for a stored id
SavedSessions ==
    {[title |-> d.title, steps |-> d.steps, images |-> [k \in 1..n |-> k]] :
        d \in GeneratedDocs(1), n \in {1}}

\* a session of the list is clicked (and the unsaved-changes dialog accepted), up
\* to `await db.getSession(id)`; the call's `session` is the id asked for
handleLoadSession(id) ==
    /\ ~overlayOpen /\ ~dragging
    /\ id \in sessions
    /\ Len(calls) < MaxCalls
    /\ error' = Null
    /\ calls' = Append(calls, [Call("load", "db", -1, {}) EXCEPT !.session = id])
    /\ lastOp' = Op("handleLoadSession", "none", EmptyDoc)
    /\ UNCHANGED <<hist, images, appFlags, sessionVars, modalVars, editingIndex,
                   selectedIndices, dragVars>>
    /\ pre' = hist /\ UNCHANGED <<autoSave, main>> /\ UNCHANGED annotVars

\* db.getSession resolved with the stored session
loadResolved(c, session) ==
    /\ c \in 1..Len(calls) /\ calls[c].kind = "load"
    /\ calls[c].session \in db
    /\ session \in SavedSessions
    /\ hist' = reset(Doc(session.title, session.steps))
    /\ images' = session.images
    /\ currentSessionId' = calls[c].session
    /\ selectedIndices' = selectionAfter(session.steps)
    /\ calls' = removeAt(calls, c - 1)
    /\ lastOp' = Op("loadResolved", "reset", Doc(session.title, session.steps))
    /\ UNCHANGED <<appFlags, error, sessions, db, modalVars, editingIndex, dragVars>>
    /\ pre' = hist /\ UNCHANGED <<autoSave, main>> /\ UNCHANGED annotVars

\* db.getSession rejected, or resolved with no session: only the error is set
loadRejectedClears(c) ==
    /\ c \in 1..Len(calls) /\ calls[c].kind = "load"
    /\ error' = "Failed to load session."
    /\ calls' = removeAt(calls, c - 1)
    /\ currentSessionId' = 0
    /\ lastOp' = Op("loadRejected", "none", EmptyDoc)
    /\ UNCHANGED <<hist, images, appFlags, sessions, db, modalVars, editingIndex,
                   selectedIndices, dragVars>>
    /\ pre' = hist /\ UNCHANGED <<autoSave, main>> /\ UNCHANGED annotVars
loadRejected(c) ==
    /\ c \in 1..Len(calls) /\ calls[c].kind = "load"
    /\ error' = "Failed to load session."
    /\ calls' = removeAt(calls, c - 1)
    /\ lastOp' = Op("loadRejected", "none", EmptyDoc)
    /\ UNCHANGED <<hist, images, appFlags, sessionVars, modalVars, editingIndex,
                   selectedIndices, dragVars>>
    /\ pre' = hist /\ UNCHANGED <<autoSave, main>> /\ UNCHANGED annotVars

\* ---- handleImportSession
\* a chosen file: whether it is JSON text, its title ("" when the key is missing
\* or empty), and whether its steps and images are arrays
ImportFile(json, t, stepsIsArray, imagesIsArray) ==
    [json |-> json, title |-> t, stepsIsArray |-> stepsIsArray,
     imagesIsArray |-> imagesIsArray]
\* an exported session, one that lacks each required part, and a file that is not JSON
ImportFiles ==
    { ImportFile(TRUE, "I", TRUE, TRUE), ImportFile(TRUE, "", TRUE, TRUE),
      ImportFile(TRUE, "I", FALSE, TRUE), ImportFile(TRUE, "I", TRUE, FALSE),
      ImportFile(FALSE, "", FALSE, FALSE) }

\* JSON.parse succeeds and the format test of the onload callback passes
validFileNoTitle(file) == file.json /\ file.stepsIsArray /\ file.imagesIsArray
validFile(file) == file.json /\ file.title # "" /\ file.stepsIsArray /\ file.imagesIsArray

\* the file input: reader.readAsText(file) is started; `results` holds the file
handleImportSession(file) ==
    /\ ~overlayOpen /\ ~dragging
    /\ file \in ImportFiles
    /\ Len(calls) < MaxCalls
    /\ calls' = Append(calls, [Call("import", "read", -1, {}) EXCEPT !.results = file])
    /\ lastOp' = OpWith("handleImportSession", "none", EmptyDoc, <<file>>)
    /\ UNCHANGED <<hist, images, appFlags, error, sessionVars, modalVars, editingIndex,
                   selectedIndices, dragVars>>
    /\ pre' = hist /\ UNCHANGED <<autoSave, main>> /\ UNCHANGED annotVars

\* reader.onload up to `await db.addSession`, or to the catch when the file is refused
importRead(c) ==
    /\ c \in 1..Len(calls) /\ calls[c].kind = "import" /\ calls[c].phase = "read"
    /\ IF validFile(calls[c].results)
       THEN /\ Cardinality(db) < MaxSessions
            /\ calls' = [calls EXCEPT ![c].phase = "db"]
            /\ lastOp' = OpWith("importValidated", "none", EmptyDoc, <<calls[c].results>>)
            /\ UNCHANGED error
       ELSE /\ calls' = removeAt(calls, c - 1)
            /\ error' = "Could not import session."
            /\ lastOp' = OpWith("importRejected", "none", EmptyDoc, <<calls[c].results>>)
    /\ UNCHANGED <<hist, images, appFlags, sessionVars, modalVars, editingIndex,
                   selectedIndices, dragVars>>
    /\ pre' = hist /\ UNCHANGED <<autoSave, main>> /\ UNCHANGED annotVars

\* reader.onerror
importReadFailed(c) ==
    /\ c \in 1..Len(calls) /\ calls[c].kind = "import" /\ calls[c].phase = "read"
    /\ calls' = removeAt(calls, c - 1)
    /\ error' = "Error reading the selected file."
    /\ lastOp' = Op("importReadFailed", "none", EmptyDoc)
    /\ UNCHANGED <<hist, images, appFlags, sessionVars, modalVars, editingIndex,
                   selectedIndices, dragVars>>
    /\ pre' = hist /\ UNCHANGED <<autoSave, main>> /\ UNCHANGED annotVars

\* db.addSession resolved with the new id; loadSessions is awaited next
importStored(c) ==
    /\ c \in 1..Len(calls) /\ calls[c].kind = "import" /\ calls[c].phase = "db"
    /\ LET newId == Cardinality(db) + 1
       IN /\ db' = db \cup {newId}
          /\ calls' = [calls EXCEPT ![c].phase = "reload", ![c].session = newId]
    /\ lastOp' = Op("importStored", "none", EmptyDoc)
    /\ UNCHANGED <<hist, images, appFlags, error, currentSessionId, sessions, modalVars,
                   editingIndex, selectedIndices, dragVars>>
    /\ pre' = hist /\ UNCHANGED <<autoSave, main>> /\ UNCHANGED annotVars

importStoreRejected(c) ==
    /\ c \in 1..Len(calls) /\ calls[c].kind = "import" /\ calls[c].phase = "db"
    /\ calls' = removeAt(calls, c - 1)
    /\ error' = "Could not import session."
    /\ lastOp' = Op("importStoreRejected", "none", EmptyDoc)
    /\ UNCHANGED <<hist, images, appFlags, sessionVars, modalVars, editingIndex,
                   selectedIndices, dragVars>>
    /\ pre' = hist /\ UNCHANGED <<autoSave, main>> /\ UNCHANGED annotVars

\* loadSessions settled; handleLoadSession(newId) of the handler's render runs to
\* its await, unless that render had unsaved changes and the dialog is declined
importReloaded(c, listed, accepted) ==
    /\ c \in 1..Len(calls) /\ calls[c].kind = "import" /\ calls[c].phase = "reload"
    /\ sessions' = IF listed THEN db ELSE sessions
    /\ IF canUndo(calls[c].state) /\ ~accepted
       THEN /\ calls' = removeAt(calls, c - 1)
            /\ error' = IF listed THEN error ELSE "Could not load saved sessions."
       ELSE /\ calls' = [calls EXCEPT ![c].kind = "load", ![c].phase = "db"]
            /\ error' = Null
    /\ lastOp' = Op("importReloaded", "none", EmptyDoc)
    /\ UNCHANGED <<hist, images, appFlags, currentSessionId, db, modalVars, editingIndex,
                   selectedIndices, dragVars>>
    /\ pre' = hist /\ UNCHANGED <<autoSave, main>> /\ UNCHANGED annotVars

\* ------------------------------------------------------------------ annotator handlers
annotatorOpen == annotator.annotatingImageIndex # -1
inGesture == annotator.currentAction # "none"

\* an annotator handler: only the annotator changes
Annotate(name, next, input) ==
    /\ annotator' = next
    /\ lastOp' = OpWith(name, "none", EmptyDoc, input)
    /\ pre' = hist /\ UNCHANGED <<autoSave, main>>
    /\ UNCHANGED <<hist, images, appFlags, error, sessionVars, modalVars, calls,
                   editingIndex, selectedIndices, dragVars>>

\* App.handleAnnotateImage: the Annotate button of an image of the guide
handleAnnotateImage(imageIndex) ==
    /\ displayShown /\ ~annotatorOpen
    /\ imageIndex \in 0..(Len(images) - 1)
    /\ Annotate("handleAnnotateImage", [annotator EXCEPT !.annotatingImageIndex = imageIndex],
                <<imageIndex>>)
    /\ UNCHANGED gesture

\* setAnnotatingImageIndex(null) and the annotator's effect on isOpen turning false
closedKeepsHistory(an) ==
    [an EXCEPT !.annotatingImageIndex = -1, !.selectedAnnotationId = 0, !.cropRect = NoRect]
closed(an) ==
    [an EXCEPT !.annotatingImageIndex = -1, !.history = reset(<<>>),
               !.selectedAnnotationId = 0, !.cropRect = NoRect]

\* App.handleCloseAnnotator; the pointer has left the canvas to reach the button
handleCloseAnnotator ==
    /\ annotatorOpen /\ ~inGesture
    /\ Annotate("handleCloseAnnotator", closed(annotator), <<>>)
    /\ UNCHANGED gesture

\* ---- the crop bar, shown for the crop tool while a rectangle is pending
cropBarShown ==
    annotatorOpen /\ ~inGesture /\ annotator.tool = "crop" /\ annotator.cropRect # NoRect

handleCancelCrop ==
    /\ cropBarShown
    /\ Annotate("handleCancelCrop", [annotator EXCEPT !.cropRect = NoRect, !.tool = "select"],
                <<>>)
    /\ UNCHANGED gesture

\* new File([blob], `cropped_${imageFile.name}`, ...); the model crops an uploaded
\* file once
croppedFile(file) == -file

\* handleApplyCrop up to canvas.toBlob: the callback keeps onSave of this render,
\* that is images and annotatingImageIndex as they are now
handleApplyCrop ==
    /\ cropBarShown
    /\ Len(calls) < MaxCalls
    /\ At(images, annotator.annotatingImageIndex) > 0
    /\ calls' = Append(calls, Call("crop", "blob", annotator.annotatingImageIndex, {}))
    /\ lastOp' = Op("handleApplyCrop", "none", EmptyDoc)
    /\ pre' = hist /\ UNCHANGED <<autoSave, main>>
    /\ UNCHANGED <<hist, images, appFlags, error, sessionVars, modalVars, editingIndex,
                   selectedIndices, dragVars, annotVars>>

\* the toBlob callback: with a blob, App.handleSaveAnnotatedImage and
\* handleCloseAnnotator run; a canvas without area gives no blob
cropBlob(c, blob) ==
    /\ c \in 1..Len(calls) /\ calls[c].kind = "crop"
    /\ calls' = removeAt(calls, c - 1)
    /\ IF blob
       THEN /\ images' = [calls[c].images EXCEPT ![calls[c].stepIndex + 1] = croppedFile(@)]
            /\ annotator' = closed(annotator)
            /\ lastOp' = OpWith("cropApplied", "none", EmptyDoc,
                                <<calls[c].stepIndex, At(calls[c].images, calls[c].stepIndex),
                                  Len(annotator.history.present)>>)
       ELSE /\ UNCHANGED <<images, annotator>>
            /\ lastOp' = Op("cropFailed", "none", EmptyDoc)
    /\ pre' = hist /\ UNCHANGED <<autoSave, main>>
    /\ UNCHANGED <<hist, appFlags, error, sessionVars, modalVars, editingIndex,
                   selectedIndices, dragVars, gesture>>

\* a toolbar button
selectTool(name) ==
    /\ annotatorOpen /\ ~inGesture
    /\ name \in Tools /\ name # annotator.tool
    /\ Annotate("selectTool", [annotator EXCEPT !.tool = name, !.selectedAnnotationId = 0],
                <<name>>)
    /\ UNCHANGED gesture

\* the model starts a gesture, or adds to the canvas, only while the history and
\* the canvas have room for what it commits
StampTools == {"number", "eraser"}
\* nothing clamps a crop rectangle to the canvas; the model starts no further
\* gesture on one that has left it or has been turned inside out
cropOnCanvas ==
    IF annotator.cropRect = NoRect THEN TRUE
    ELSE /\ annotator.cropRect.x >= 0 /\ annotator.cropRect.width >= 0
         /\ annotator.cropRect.x + annotator.cropRect.width <= MaxPoint
\* a list with badges has the history that their stamping needed
hasBadge == \E i \in 1..Len(annotator.history.present) : annotator.history.present[i].type = "number"
canCommit ==
    IF annotator.tool = "crop" THEN cropOnCanvas
    ELSE IF annotator.tool \in StampTools
    THEN /\ Len(annotator.history.past) < MaxStamps
         /\ annotator.tool = "number" => Len(annotator.history.present) < MaxBadges
    ELSE /\ Len(annotator.history.past) < (IF hasBadge THEN MaxStamps ELSE MaxPast)
         /\ annotator.tool = "rectangle" => Len(annotator.history.present) < MaxAnnotations

handleMouseDown(e, tick) ==
    /\ annotatorOpen /\ ~inGesture /\ canCommit
    /\ e \in MouseEvents(annotator)
    /\ (tick /\ annotator.tool = "number") => annotator.now <= MaxStamped
    /\ (tick /\ annotator.tool = "rectangle") => annotator.now <= MaxDrawn
    /\ Annotate("handleMouseDown", mouseDown(annotator, e, tick), <<e.hits>>)
    /\ gesture' = [past |-> Len(annotator.history.past), moves |-> 0]

handleMouseMove(e) ==
    /\ annotatorOpen
    /\ e \in MouseEvents(annotator)
    /\ inGesture => gesture.moves < MaxMoves
    /\ Annotate("handleMouseMove", mouseMove(annotator, e), <<>>)
    /\ gesture' = IF inGesture THEN [gesture EXCEPT !.moves = @ + 1] ELSE gesture

\* onMouseUp and onMouseLeave
handleMouseUp ==
    /\ annotatorOpen
    /\ Annotate("handleMouseUp", mouseUp(annotator), <<>>)
    /\ gesture' = [past |-> 0, moves |-> 0]

\* the Delete and Backspace keys
handleDeleteSelected ==
    /\ annotatorOpen
    /\ annotator.selectedAnnotationId # 0
    /\ Len(annotator.history.past) < MaxPast
    /\ Annotate("handleDeleteSelected", deleteSelected(annotator), <<>>)
    /\ UNCHANGED gesture

\* the Undo and Redo buttons, disabled for the crop tool
undoAnnotation ==
    /\ annotatorOpen /\ ~inGesture
    /\ canUndo(annotator.history) /\ annotator.tool # "crop"
    /\ Annotate("undoAnnotation", [annotator EXCEPT !.history = undo(@)], <<>>)
    /\ UNCHANGED gesture

redoAnnotation ==
    /\ annotatorOpen /\ ~inGesture
    /\ canRedo(annotator.history) /\ annotator.tool # "crop"
    /\ Annotate("redoAnnotation", [annotator EXCEPT !.history = redo(@)], <<>>)
    /\ UNCHANGED gesture

\* App's keydown listener on window: Ctrl/Cmd+Z, Ctrl/Cmd+Shift+Z and Ctrl/Cmd+Y.
\* `typing` tells whether the focus is in an input, a textarea or an editable element.
KeyEvents == [key : {"z", "y"}, shiftKey : BOOLEAN, typing : BOOLEAN]
shortcutIgnoredWhenTyping(e) == e.typing \/ isSettingsOpen
shortcutIgnored(e) == e.typing \/ isSettingsOpen \/ annotatorOpen
handleKeyDown(e) ==
    /\ e \in KeyEvents
    /\ ~dragging
    /\ LET does == IF shortcutIgnored(e) THEN "none"
                   ELSE IF e.key = "z" /\ ~e.shiftKey THEN "undo" ELSE "redo"
           next == IF does = "undo" THEN undo(hist)
                   ELSE IF does = "redo" THEN redo(hist) ELSE hist
       IN /\ hist' = next
          /\ selectedIndices' = selectionAfter(next.present.steps)
          /\ lastOp' = OpWith("handleKeyDown", does, EmptyDoc, <<e>>)
    /\ UNCHANGED <<images, appFlags, error, sessionVars, modalVars, calls, editingIndex, dragVars>>
    /\ pre' = hist /\ UNCHANGED <<autoSave, main>> /\ UNCHANGED annotVars

\* ------------------------------------------------------------------ auto-save
autoSaveDeps == <<isModified, documentState, images>>
\* the ticks the interval of the last run of the effect has counted
intervalElapsed == IF autoSave.deps = autoSaveDeps THEN autoSave.elapsed ELSE 0
ExportedSession(doc, files) == [title |-> doc.title, steps |-> doc.steps, images |-> files]

\* time passes: one tick of the interval that the last run of the effect set
autoSaveTick ==
    /\ intervalElapsed < AutoSavePeriod
    /\ autoSave' = [autoSave EXCEPT !.deps = autoSaveDeps, !.elapsed = intervalElapsed + 1]
    /\ lastOp' = Op("autoSaveTick", "none", EmptyDoc)
    /\ pre' = hist
    /\ UNCHANGED <<hist, images, appFlags, error, sessionVars, modalVars, calls,
                   editingIndex, selectedIndices, dragVars, annotVars, main>>

\* the interval fires: performAutoSave writes the session of its render if modified
performAutoSave ==
    /\ intervalElapsed = AutoSavePeriod
    /\ autoSave' = [deps |-> autoSaveDeps, elapsed |-> 0,
                    stored |-> IF isModified
                               THEN ExportedSession(documentState, images)
                               ELSE autoSave.stored]
    /\ lastOp' = Op("performAutoSave", "none", EmptyDoc)
    /\ pre' = hist
    /\ UNCHANGED <<hist, images, appFlags, error, sessionVars, modalVars, calls,
                   editingIndex, selectedIndices, dragVars, annotVars, main>>

\* ------------------------------------------------------------------ hit test
\* The hit test on the plane, in half pixels (a stroke of odd width ends on a
\* half pixel); angles are quarter turns.
MinThickness == 1
MaxThickness == 30
DefaultLineWidth == 4
ClickBuffer == 4
Thicknesses == MinThickness..MaxThickness
cosQ(q) == <<1, 0, -1, 0>>[(q % 4) + 1]
sinQ(q) == <<0, 1, 0, -1>>[(q % 4) + 1]
rotatePoint(point, center, q) ==
    [x |-> (point.x - center.x) * cosQ(q) - (point.y - center.y) * sinQ(q) + center.x,
     y |-> (point.x - center.x) * sinQ(q) + (point.y - center.y) * cosQ(q) + center.y]
shapeBounds(a) ==
    [minX |-> min(a.start.x, a.end.x), minY |-> min(a.start.y, a.end.y),
     maxX |-> max(a.start.x, a.end.x), maxY |-> max(a.start.y, a.end.y),
     width |-> abs(a.end.x - a.start.x), height |-> abs(a.end.y - a.start.y)]
shapeCenter(a) ==
    [x |-> shapeBounds(a).minX + shapeBounds(a).width \div 2,
     y |-> shapeBounds(a).minY + shapeBounds(a).height \div 2]
bufferWithoutLineWidth(a) == 2 * ClickBuffer
bufferOf(a) == 2 * ((IF a.lineWidth = 0 THEN DefaultLineWidth ELSE a.lineWidth) + ClickBuffer)
isPointInsideAnnotation(point, a) ==
    LET localPoint == rotatePoint(point, shapeCenter(a), 4 - a.rotation)
        bounds == shapeBounds(a)
        buffer == bufferOf(a)
    IN /\ localPoint.x >= bounds.minX - buffer /\ localPoint.x <= bounds.maxX + buffer
       /\ localPoint.y >= bounds.minY - buffer /\ localPoint.y <= bounds.maxY + buffer

\* unrotated rectangles drawn with each thickness of the slider, from either corner
TopLeft == [x |-> 80, y |-> 60]
BottomRight == [x |-> 240, y |-> 180]
Rectangles ==
    {[type |-> "rectangle", rotation |-> 0, lineWidth |-> w, start |-> c[1], end |-> c[2]] :
        w \in Thicknesses, c \in {<<TopLeft, BottomRight>>, <<BottomRight, TopLeft>>}}
\* the point `d` half pixels outside the edge of the rectangle on one side,
\* half way along it
Sides == {"n", "e", "s", "w"}
\* the distances tried: 0, 1, 4, 5 and 10 pixels beyond the painted stroke, which
\* reaches lineWidth / 2 pixels (lineWidth half pixels) outside the edge
Outside == {0, 1, 4, 5, 10}
Distances(a) == {a.lineWidth + 2 * k : k \in Outside}
pointOutside(a, side, d) ==
    LET b == shapeBounds(a)
        c == shapeCenter(a)
    IN IF side = "n" THEN [x |-> c.x, y |-> b.minY - d]
       ELSE IF side = "s" THEN [x |-> c.x, y |-> b.maxY + d]
       ELSE IF side = "w" THEN [x |-> b.minX - d, y |-> c.y]
       ELSE [x |-> b.maxX + d, y |-> c.y]

\* a pointer-down or hover tested against one annotation
hitTest(a, side, d) ==
    /\ a \in Rectangles /\ side \in Sides /\ d \in Distances(a)
    /\ lastOp' = OpWith("isPointInsideAnnotation", "none", EmptyDoc,
                        <<a, d, isPointInsideAnnotation(pointOutside(a, side, d), a)>>)
    /\ pre' = hist /\ UNCHANGED <<autoSave, main>>
    /\ UNCHANGED <<hist, images, appFlags, error, sessionVars, modalVars, calls,
                   editingIndex, selectedIndices, dragVars, annotVars>>

\* ------------------------------------------------------------------ resize on the plane
\* getAnnotationHandles: the place of a handle, turned about the centre
handlePosition(a, key) ==
    LET b == shapeBounds(a)
        midX == b.minX + b.width \div 2
        midY == b.minY + b.height \div 2
        x == IF key \in {"nw", "w", "sw"} THEN b.minX
             ELSE IF key \in {"ne", "e", "se"} THEN b.minX + b.width ELSE midX
        y == IF key \in {"nw", "n", "ne"} THEN b.minY
             ELSE IF key \in {"sw", "s", "se"} THEN b.minY + b.height ELSE midY
    IN rotatePoint([x |-> x, y |-> y], shapeCenter(a), a.rotation)
oppositeHandleKey(key) ==
    [nw |-> "se", ne |-> "sw", sw |-> "ne", se |-> "nw", n |-> "s", s |-> "n",
     w |-> "e", e |-> "w"][key]
\* handleMouseMove while resizing a shape: the draft that setDrawingAnnotation gets
resizedShape(ann, draft, key, mousePos) ==
    LET pivot == handlePosition(ann, oppositeHandleKey(key))
        rotatedMousePos == rotatePoint(mousePos, pivot, 4 - ann.rotation)
        newStartUnrotated == [x |-> min(pivot.x, rotatedMousePos.x), y |-> min(pivot.y, rotatedMousePos.y)]
        newEndUnrotated == [x |-> max(pivot.x, rotatedMousePos.x), y |-> max(pivot.y, rotatedMousePos.y)]
        newWidth == newEndUnrotated.x - newStartUnrotated.x
        newHeight == newEndUnrotated.y - newStartUnrotated.y
        \* twice newCenterUnrotated - pivot, and twice finalCenter
        diff == [x |-> newStartUnrotated.x + newEndUnrotated.x - 2 * pivot.x,
                 y |-> newStartUnrotated.y + newEndUnrotated.y - 2 * pivot.y]
        finalCenter == [x |-> 2 * pivot.x + diff.x * cosQ(ann.rotation) - diff.y * sinQ(ann.rotation),
                        y |-> 2 * pivot.y + diff.x * sinQ(ann.rotation) + diff.y * cosQ(ann.rotation)]
    IN [draft EXCEPT !.start = [x |-> (finalCenter.x - newWidth) \div 2,
                               y |-> (finalCenter.y - newHeight) \div 2],
                     !.end = [x |-> (finalCenter.x + newWidth) \div 2,
                              y |-> (finalCenter.y + newHeight) \div 2]]

\* an unrotated rectangle, a handle of it and where the pointer is dragged to
ResizedRectangles == {a \in Rectangles : a.lineWidth = DefaultLineWidth}
ResizeHandleKeys == {"nw", "n", "ne", "w", "e", "sw", "s", "se"}
DragPoints == [x : {40, 80, 160, 240, 280}, y : {20, 60, 120, 180, 220}]
resizeDragged(a, key, mousePos) ==
    /\ a \in ResizedRectangles /\ key \in ResizeHandleKeys /\ mousePos \in DragPoints
    /\ lastOp' = OpWith("resizing", "none", EmptyDoc,
                        <<a, key, mousePos, resizedShape(a, a, key, mousePos)>>)
    /\ pre' = hist /\ UNCHANGED <<autoSave, main>>
    /\ UNCHANGED <<hist, images, appFlags, error, sessionVars, modalVars, calls,
                   editingIndex, selectedIndices, dragVars, annotVars>>

\* ------------------------------------------------------------------ export format
\* An image file is its name, MIME type, modification time and bytes. A data URL
\* is a sequence of tokens: "data:", the media type, ";base64", "," and then the
\* characters of the base64 text.
MaxBytes == 3
Bytes == {0, 77, 255}
ByteSeqs == UNION {[1..n -> Bytes] : n \in 1..MaxBytes}
ImageFiles ==
    [name : {"a.png", "b c.png"}, type : {"image/png", ""}, lastModified : {1, 2},
     bytes : ByteSeqs]
Base64Chars ==
    <<"A", "B", "C", "D", "E", "F", "G", "H", "I", "J", "K", "L", "M", "N", "O", "P",
      "Q", "R", "S", "T", "U", "V", "W", "X", "Y", "Z", "a", "b", "c", "d", "e", "f",
      "g", "h", "i", "j", "k", "l", "m", "n", "o", "p", "q", "r", "s", "t", "u", "v",
      "w", "x", "y", "z", "0", "1", "2", "3", "4", "5", "6", "7", "8", "9", "+", "/">>
char64(n) == Base64Chars[n + 1]
sextet(c) == IF c = "=" THEN 0 ELSE (CHOOSE i \in 1..Len(Base64Chars) : Base64Chars[i] = c) - 1

\* the base64 text of a byte sequence: three bytes to four characters, "=" padded
RECURSIVE btoa(_)
btoa(b) ==
    IF Len(b) = 0 THEN <<>>
    ELSE IF Len(b) = 1
    THEN <<char64(b[1] \div 4), char64((b[1] % 4) * 16), "=", "=">>
    ELSE IF Len(b) = 2
    THEN <<char64(b[1] \div 4), char64((b[1] % 4) * 16 + b[2] \div 16),
           char64((b[2] % 16) * 4), "=">>
    ELSE <<char64(b[1] \div 4), char64((b[1] % 4) * 16 + b[2] \div 16),
           char64((b[2] % 16) * 4 + b[3] \div 64), char64(b[3] % 64)>>
         \o btoa(SubSeq(b, 4, Len(b)))

\* the char codes of the binary string that atob returns
RECURSIVE atobWholeGroups(_)
atobWholeGroups(c) ==
    IF Len(c) < 4 THEN <<>>
    ELSE <<sextet(c[1]) * 4 + sextet(c[2]) \div 16,
           (sextet(c[2]) % 16) * 16 + sextet(c[3]) \div 4,
           (sextet(c[3]) % 4) * 64 + sextet(c[4])>> \o atobWholeGroups(SubSeq(c, 5, Len(c)))
RECURSIVE atob(_)
atob(c) ==
    IF Len(c) < 4 THEN <<>>
    ELSE LET b1 == sextet(c[1]) * 4 + sextet(c[2]) \div 16
             b2 == (sextet(c[2]) % 16) * 16 + sextet(c[3]) \div 4
             b3 == (sextet(c[3]) % 4) * 64 + sextet(c[4])
         IN (IF c[3] = "=" THEN <<b1>> ELSE IF c[4] = "=" THEN <<b1, b2>> ELSE <<b1, b2, b3>>)
            \o atob(SubSeq(c, 5, Len(c)))

\* FileReader.readAsDataURL
readAsDataURL(file) ==
    <<"data:", IF file.type = "" THEN "application/octet-stream" ELSE file.type, ";base64", ",">>
        \o btoa(file.bytes)
\* dataUrl.split(',')[1]: what stands between the first comma and the next
RECURSIVE upToComma(_)
upToComma(s) == IF s = <<>> \/ Head(s) = "," THEN <<>> ELSE <<Head(s)>> \o upToComma(Tail(s))
RECURSIVE afterComma(_)
afterComma(s) ==
    IF s = <<>> THEN <<>> ELSE IF Head(s) = "," THEN upToComma(Tail(s)) ELSE afterComma(Tail(s))

convertFileToExportedImage(file) ==
    [name |-> file.name, type |-> file.type, lastModified |-> file.lastModified,
     data |-> readAsDataURL(file)]
base64ToFile(dataUrl, filename, mimeType, lastModified) ==
    LET bstr == atob(afterComma(dataUrl))
    IN [name |-> filename, type |-> mimeType, lastModified |-> lastModified,
        bytes |-> [n \in 1..Len(bstr) |-> bstr[n] % 256]]

\* an image exported to the interchange format and imported from it
exportedAndImported(file) ==
    /\ file \in ImageFiles
    /\ LET e == convertFileToExportedImage(file)
       IN lastOp' = OpWith("base64ToFile", "none", EmptyDoc,
                           <<file, base64ToFile(e.data, e.name, e.type, e.lastModified)>>)
    /\ pre' = hist /\ UNCHANGED <<autoSave, main>>
    /\ UNCHANGED <<hist, images, appFlags, error, sessionVars, modalVars, calls,
                   editingIndex, selectedIndices, dragVars, annotVars>>

\* ------------------------------------------------------------------ block handlers
\* InstructionDisplay.handleDelete (confirmed) -> App.handleDeleteStep
handleDeleteStep(startIndex) ==
    /\ displayShown /\ ~dragging
    /\ startIndex \in TextIndices(instructionSteps)
    /\ startIndex # editingIndex
    /\ CommitWith("handleDeleteStep",
                  [documentState EXCEPT !.steps = deleteStepSteps(instructionSteps, startIndex)],
                  <<startIndex>>)
    /\ UNCHANGED <<images, appFlags, error, sessionVars, modalVars, calls, editingIndex, dragVars>>

\* an Inserter: -1 above the first block, else the one below block afterBlockIndex
handleInsertStep(afterBlockIndex) ==
    /\ displayShown /\ ~dragging
    /\ afterBlockIndex \in -1..(Len(instructionBlocks(instructionSteps)) - 1)
    /\ Len(instructionSteps) < MaxSteps
    /\ CommitWith("handleInsertStep",
                  [documentState EXCEPT !.steps = insertSteps(instructionSteps, afterBlockIndex)],
                  <<afterBlockIndex>>)
    /\ editingIndex' = insertAtIndex(instructionSteps, afterBlockIndex)
    /\ UNCHANGED <<images, appFlags, error, sessionVars, modalVars, calls, dragVars>>

\* the checkbox of a block that is not being edited
handleToggleSelection(textStepIndex) ==
    /\ displayShown /\ ~dragging
    /\ textStepIndex \in TextIndices(instructionSteps)
    /\ textStepIndex # editingIndex
    /\ selectedIndices' =
         IF Includes(selectedIndices, textStepIndex)
         THEN SelectSeq(selectedIndices, LAMBDA i : i # textStepIndex)
         ELSE Append(selectedIndices, textStepIndex)
    /\ lastOp' = Op("handleToggleSelection", "none", EmptyDoc)
    /\ UNCHANGED <<hist, images, appFlags, error, sessionVars, modalVars, calls, editingIndex,
                   dragVars>>
    /\ pre' = hist /\ UNCHANGED <<autoSave, main>> /\ UNCHANGED annotVars

\* the Merge Selected button (rendered when more than one block is selected)
handleMerge ==
    /\ displayShown /\ ~dragging
    /\ Len(selectedIndices) > 1
    /\ Len(hist.past) < MaxPast
    /\ LET newDoc == [documentState EXCEPT !.steps = mergeSteps(instructionSteps, selectedIndices)]
       IN /\ hist' = set(hist, hist, newDoc)
          /\ lastOp' = OpWith("handleMerge", "set", newDoc, selectedIndices)
    /\ selectedIndices' = <<>>
    /\ UNCHANGED <<images, appFlags, error, sessionVars, modalVars, calls, editingIndex, dragVars>>
    /\ pre' = hist /\ UNCHANGED <<autoSave, main>> /\ UNCHANGED annotVars

\* drag and drop of a block that is not being edited; indices are block indices
handleDragStart(index) ==
    /\ displayShown /\ ~dragging
    /\ index \in 0..(Len(instructionBlocks(instructionSteps)) - 1)
    /\ instructionBlocks(instructionSteps)[index + 1].textStepIndex # editingIndex
    /\ draggedIndex' = index
    /\ lastOp' = Op("handleDragStart", "none", EmptyDoc)
    /\ UNCHANGED <<hist, images, appFlags, error, sessionVars, modalVars, calls, editingIndex,
                   selectedIndices, dragOverIndex>>
    /\ pre' = hist /\ UNCHANGED <<autoSave, main>> /\ UNCHANGED annotVars

blockShownAt(index) ==
    /\ ~(isLoading \/ isMerging)
    /\ index \in 0..(Len(instructionBlocks(instructionSteps)) - 1)
    /\ instructionBlocks(instructionSteps)[index + 1].textStepIndex # editingIndex

handleDragEnter(index) ==
    /\ dragging
    /\ blockShownAt(index)
    /\ index # draggedIndex /\ index # dragOverIndex
    /\ dragOverIndex' = index
    /\ lastOp' = Op("handleDragEnter", "none", EmptyDoc)
    /\ UNCHANGED <<hist, images, appFlags, error, sessionVars, modalVars, calls, editingIndex,
                   selectedIndices, draggedIndex>>
    /\ pre' = hist /\ UNCHANGED <<autoSave, main>> /\ UNCHANGED annotVars

\* the drop on a block, then the dragend that always follows it
handleDrop(target) ==
    /\ dragging
    /\ blockShownAt(target)
    /\ target \in {draggedIndex, dragOverIndex}
    /\ Len(hist.past) < MaxPast
    /\ LET blocks == instructionBlocks(instructionSteps)
           \* the early return, or the TypeError of flatMap on a missing dragged block
           ignored == dragOverIndex = -1 \/ draggedIndex = dragOverIndex
                      \/ draggedIndex >= Len(blocks)
           newDoc == IF ignored THEN documentState
                     ELSE [documentState EXCEPT
                             !.steps = dropSteps(instructionSteps, draggedIndex, dragOverIndex)]
       IN /\ hist' = set(hist, hist, newDoc)
          /\ selectedIndices' = selectionAfter(newDoc.steps)
          /\ lastOp' = IF ignored
                       THEN OpWith("handleDrop", "none", EmptyDoc, <<draggedIndex, dragOverIndex>>)
                       ELSE OpWith("handleDrop", "set", newDoc, <<draggedIndex, dragOverIndex>>)
    /\ draggedIndex' = -1 /\ dragOverIndex' = -1
    /\ UNCHANGED <<images, appFlags, error, sessionVars, modalVars, calls, editingIndex>>
    /\ pre' = hist /\ UNCHANGED <<autoSave, main>> /\ UNCHANGED annotVars

\* the drag ends without a drop on a block
handleDragEnd ==
    /\ dragging
    /\ draggedIndex' = -1 /\ dragOverIndex' = -1
    /\ lastOp' = Op("handleDragEnd", "none", EmptyDoc)
    /\ UNCHANGED <<hist, images, appFlags, error, sessionVars, modalVars, calls, editingIndex,
                   selectedIndices>>
    /\ pre' = hist /\ UNCHANGED <<autoSave, main>> /\ UNCHANGED annotVars
\* ------------------------------------------------------------------ specifications
GenerateSettles ==
    \E c \in 1..MaxCalls :
        \/ \E result \in UNION {GeneratedDocs(n) : n \in 1..MaxImages} : generateResolved(c, result)
        \/ generateRejected(c)

MergeSettles ==
    \E c \in 1..MaxCalls, i \in 0..(MaxImages - 1) :
        \/ \E result \in IncrementalResults : mergeImageResolved(c, i, result)
        \/ mergeImageRejected(c, i)

RegenerateSettles ==
    \E c \in 1..MaxCalls :
        \/ \E newContent \in RegeneratedTexts : regenerateResolved(c, newContent)
        \/ regenerateRejected(c)

SaveSettles ==
    \E c \in 1..MaxCalls :
        \/ saveStored(c)
        \/ saveRejected(c)
        \/ \E listed \in BOOLEAN : saveReloaded(c, listed)

\* the app from its start: the queue, the settings, generation and merge, and what
\* the user can do to the history meanwhile
Next ==
    \/ \E k \in BOOLEAN : handleApiKeysSave(k)
    \/ closeSettings
    \/ \E files \in Queues : handleImagesChange(files)
    \/ handleGenerate
    \/ handleConfirmGenerate
    \/ handleCancelGenerate
    \/ handleMergeInstructions
    \/ \E t \in Titles : handleTitleChange(t)
    \/ \E i \in 0..(2 * MaxImages) : handleDeleteStep(i)
    \/ undoPressed
    \/ redoPressed
    \/ handleNewSession
    \/ GenerateSettles
    \/ MergeSettles

Spec == Init /\ [][Next]_vars

\* a guide has been generated from the first m files of the queue
InitEdit ==
    /\ \E n \in 1..MaxImages, m \in 1..MaxImages :
          /\ m <= n
          /\ images = [k \in 1..n |-> k]
          /\ \E d \in GeneratedDocs(m) : hist = reset(d) /\ lastOp = Op("generateResolved", "reset", d)
    /\ isLoading = FALSE /\ isMerging = FALSE /\ regeneratingIndex = -1 /\ isSaving = FALSE
    /\ error = Null
    /\ currentSessionId = 0 /\ sessions = {} /\ db = {}
    /\ isGenerateConfirmOpen = FALSE /\ isSettingsOpen = FALSE /\ hasApiKey = TRUE
    /\ calls = <<>>
    /\ editingIndex = -1
    /\ selectedIndices = <<>> /\ draggedIndex = -1 /\ dragOverIndex = -1
    /\ pre = reset(EmptyDoc)
    /\ annotator = closedAnnotator /\ gesture = [past |-> 0, moves |-> 0]
    /\ autoSave = autoSaveUnarmed
    /\ main = mainIdle

NextEdit ==
    \/ \E t \in Titles : handleTitleChange(t)
    \/ \E i \in 0..(2 * MaxImages) : handleStartEditing(i)
    \/ \E e \in EditedTexts : handleSave(e)
    \/ handleCancelEditing
    \/ undoPressed
    \/ redoPressed
    \/ handleNewSession
    \/ \E files \in Queues : handleImagesChange(files)
    \/ \E i \in 0..(2 * MaxImages) : handleDeleteStep(i)
    \/ \E b \in -1..MaxSteps : handleInsertStep(b)

SpecEdit == InitEdit /\ [][NextEdit]_vars
\* a generated guide, the regeneration calls that write to the history when they
\* settle, and the edits the user can make while they are outstanding
NextStale ==
    \/ \E i \in 0..(2 * MaxImages) : handleStartEditing(i)
    \/ handleRegenerateStep
    \/ \E t \in Titles : handleTitleChange(t)
    \/ undoPressed
    \/ redoPressed
    \/ RegenerateSettles

SpecStale == InitEdit /\ [][NextStale]_vars

\* an edited guide and its save
NextSave ==
    \/ \E t \in Titles : handleTitleChange(t)
    \/ undoPressed
    \/ redoPressed
    \/ handleNewSession
    \/ handleSaveSession
    \/ SaveSettles

SpecSave == InitEdit /\ [][NextSave]_vars

\* every asynchronous action with a busy flag; a call that stays outstanding settles
NextBusy ==
    \/ handleGenerate
    \/ handleConfirmGenerate
    \/ handleCancelGenerate
    \/ handleMergeInstructions
    \/ \E i \in 0..(2 * MaxImages) : handleStartEditing(i)
    \/ handleRegenerateStep
    \/ GenerateSettles
    \/ MergeSettles
    \/ RegenerateSettles

SpecBusy ==
    /\ InitEdit /\ [][NextBusy]_vars
    /\ WF_vars(GenerateSettles) /\ WF_vars(MergeSettles) /\ WF_vars(RegenerateSettles)


\* a guide of several blocks and the block operations of InstructionDisplay
InitBlocks ==
    /\ images = [k \in 1..MaxImages |-> k]
    /\ \E d \in BlockDocs : hist = reset(d) /\ lastOp = Op("generateResolved", "reset", d)
    /\ isLoading = FALSE /\ isMerging = FALSE /\ regeneratingIndex = -1 /\ isSaving = FALSE
    /\ error = Null
    /\ currentSessionId = 0 /\ sessions = {} /\ db = {}
    /\ isGenerateConfirmOpen = FALSE /\ isSettingsOpen = FALSE /\ hasApiKey = TRUE
    /\ calls = <<>>
    /\ editingIndex = -1
    /\ selectedIndices = <<>> /\ draggedIndex = -1 /\ dragOverIndex = -1
    /\ pre = reset(EmptyDoc)
    /\ annotator = closedAnnotator /\ gesture = [past |-> 0, moves |-> 0]
    /\ autoSave = autoSaveUnarmed
    /\ main = mainIdle

NextBlocks ==
    \/ \E i \in 0..(MaxBlocks + MaxImages) : handleToggleSelection(i)
    \/ handleMerge
    \/ \E b \in 0..MaxBlocks : handleDragStart(b)
    \/ \E b \in 0..MaxBlocks : handleDragEnter(b)
    \/ \E b \in 0..MaxBlocks : handleDrop(b)
    \/ handleDragEnd
    \/ \E b \in -1..MaxBlocks : handleInsertStep(b)
    \/ \E i \in 0..(MaxBlocks + MaxImages) : handleDeleteStep(i)

SpecBlocks == InitBlocks /\ [][NextBlocks]_vars

LoadSettles ==
    \E c \in 1..MaxCalls :
        \/ \E session \in SavedSessions : loadResolved(c, session)
        \/ loadRejected(c)

ImportSettles ==
    \E c \in 1..MaxCalls :
        \/ importRead(c)
        \/ importReadFailed(c)
        \/ importStored(c)
        \/ importStoreRejected(c)
        \/ \E listed \in BOOLEAN, accepted \in BOOLEAN : importReloaded(c, listed, accepted)

\* a guide that is edited while files are imported
NextImport ==
    \/ \E newTitle \in Titles : handleTitleChange(newTitle)
    \/ \E file \in ImportFiles : handleImportSession(file)
    \/ ImportSettles
    \/ LoadSettles

SpecImport == InitEdit /\ [][NextImport]_vars

\* a guide that is saved, edited again, and sessions that are loaded
NextSessions ==
    \/ \E t \in Titles : handleTitleChange(t)
    \/ undoPressed
    \/ handleSaveSession
    \/ SaveSettles
    \/ \E id \in 1..MaxSessions : handleLoadSession(id)
    \/ LoadSettles

SpecSessions == InitEdit /\ [][NextSessions]_vars

\* from the start of the app: upload, generate, edit the text of a step, undo, redo
NextScenario ==
    \/ closeSettings
    \/ \E files \in Queues : handleImagesChange(files)
    \/ handleGenerate
    \/ handleConfirmGenerate
    \/ handleCancelGenerate
    \/ GenerateSettles
    \/ \E i \in 0..(2 * MaxImages) : handleStartEditing(i)
    \/ \E e \in EditedTexts : handleSave(e)
    \/ undoPressed
    \/ redoPressed

SpecScenario == Init /\ [][NextScenario]_vars

\* one image of a generated guide under the annotator: shapes are drawn, moved,
\* resized and rotated, each pointer-down in a millisecond of its own
NextAnnotator ==
    \/ \E imageIndex \in 0..(MaxImages - 1) : handleAnnotateImage(imageIndex)
    \/ handleCloseAnnotator
    \/ \E name \in {"select", "rectangle"} : selectTool(name)
    \/ \E e \in MouseEvents(annotator) : handleMouseDown(e, TRUE)
    \/ \E e \in MouseEvents(annotator) : handleMouseMove(e)
    \/ handleMouseUp
    \/ handleDeleteSelected
    \/ undoAnnotation
    \/ redoAnnotation

\* a guide generated from one image, shown with no call outstanding
InitAnnotator ==
    /\ images = <<1>>
    /\ \E d \in GeneratedDocs(1) : hist = reset(d) /\ lastOp = Op("generateResolved", "reset", d)
    /\ isLoading = FALSE /\ isMerging = FALSE /\ regeneratingIndex = -1 /\ isSaving = FALSE
    /\ error = Null
    /\ currentSessionId = 0 /\ sessions = {} /\ db = {}
    /\ isGenerateConfirmOpen = FALSE /\ isSettingsOpen = FALSE /\ hasApiKey = TRUE
    /\ calls = <<>>
    /\ editingIndex = -1
    /\ selectedIndices = <<>> /\ draggedIndex = -1 /\ dragOverIndex = -1
    /\ pre = reset(EmptyDoc)
    /\ annotator = closedAnnotator /\ gesture = [past |-> 0, moves |-> 0]
    /\ autoSave = autoSaveUnarmed
    /\ main = mainIdle

SpecAnnotator == InitAnnotator /\ [][NextAnnotator]_vars

\* the annotator after a rectangle was drawn across image 0 and the crop tool chosen
pointerAt(x) == [x |-> x, handle |-> Null, hits |-> {}]
rectangleDrawn ==
    LET opened == [closedAnnotator EXCEPT !.annotatingImageIndex = 0, !.tool = "rectangle"]
        drawn == mouseUp(mouseMove(mouseDown(opened, pointerAt(0), TRUE), pointerAt(MaxPoint)))
    IN [drawn EXCEPT !.tool = "crop", !.selectedAnnotationId = 0]

\* a guide generated from one image; the annotator is closed, or open on the
\* image with a rectangle drawn
InitCrop ==
    /\ images = <<1>>
    /\ \E d \in GeneratedDocs(1) : hist = reset(d) /\ lastOp = Op("generateResolved", "reset", d)
    /\ isLoading = FALSE /\ isMerging = FALSE /\ regeneratingIndex = -1 /\ isSaving = FALSE
    /\ error = Null
    /\ currentSessionId = 0 /\ sessions = {} /\ db = {}
    /\ isGenerateConfirmOpen = FALSE /\ isSettingsOpen = FALSE /\ hasApiKey = TRUE
    /\ calls = <<>>
    /\ editingIndex = -1
    /\ selectedIndices = <<>> /\ draggedIndex = -1 /\ dragOverIndex = -1
    /\ pre = reset(EmptyDoc)
    /\ annotator \in {closedAnnotator, rectangleDrawn} /\ gesture = [past |-> 0, moves |-> 0]
    /\ autoSave = autoSaveUnarmed
    /\ main = mainIdle

\* an image cropped: the rectangle is dragged out, moved, resized, applied or cancelled
NextCrop ==
    \/ \E imageIndex \in 0..(MaxImages - 1) : handleAnnotateImage(imageIndex)
    \/ selectTool("crop")
    \/ \E e \in MouseEvents(annotator) : handleMouseDown(e, TRUE)
    \/ \E e \in MouseEvents(annotator) : handleMouseMove(e)
    \/ handleMouseUp
    \/ handleCancelCrop
    \/ handleApplyCrop
    \/ \E c \in 1..MaxCalls, blob \in BOOLEAN : cropBlob(c, blob)

SpecCrop == InitCrop /\ [][NextCrop]_vars

\* number badges placed and erased, the clock advancing or not between two of them
NextBadges ==
    \/ \E imageIndex \in 0..(MaxImages - 1) : handleAnnotateImage(imageIndex)
    \/ \E name \in StampTools : selectTool(name)
    \/ \E e \in MouseEvents(annotator), tick \in BOOLEAN : handleMouseDown(e, tick)

SpecBadges == InitAnnotator /\ [][NextBadges]_vars

\* badges stamped on one another, then pressed and released with the select tool
NextSelect ==
    \/ \E imageIndex \in 0..(MaxImages - 1) : handleAnnotateImage(imageIndex)
    \/ \E name \in {"number", "select"} : selectTool(name)
    \/ \E e \in MouseEvents(annotator) : handleMouseDown(e, TRUE)
    \/ handleMouseUp
SpecSelect == InitAnnotator /\ [][NextSelect]_vars

\* the guide edited and undone by keyboard, the annotator opened in between:
\* annotations are drawn, selected, deleted and erased where the pointer went down
NextShortcut ==
    \/ \E newTitle \in Titles : ~annotatorOpen /\ handleTitleChange(newTitle)
    \/ \E e \in KeyEvents : handleKeyDown(e)
    \/ \E imageIndex \in 0..(MaxImages - 1) : handleAnnotateImage(imageIndex)
    \/ handleCloseAnnotator
    \/ \E name \in {"select", "rectangle", "eraser"} : selectTool(name)
    \/ \E e \in MouseEvents(annotator) : e.x = 0 /\ handleMouseDown(e, TRUE)
    \/ handleMouseUp
    \/ handleDeleteSelected
    \/ undoAnnotation
    \/ redoAnnotation
SpecShortcut == InitAnnotator /\ [][NextShortcut]_vars

\* points around rectangles of every thickness tested for a hit
NextHitTest == \E a \in Rectangles, side \in Sides : \E d \in Distances(a) : hitTest(a, side, d)
SpecHitTest == InitAnnotator /\ [][NextHitTest]_vars

\* a guide edited, undone, redone and reset while the auto-save interval runs
AutoSaveTitles == {"T", "U"}
NextAutoSave ==
    \/ \E newTitle \in AutoSaveTitles : handleTitleChange(newTitle)
    \/ undoPressed
    \/ redoPressed
    \/ handleNewSession
    \/ autoSaveTick
    \/ performAutoSave
\* time passes, and an interval that is due fires
SpecAutoSave ==
    /\ InitEdit /\ [][NextAutoSave]_vars
    /\ WF_vars(autoSaveTick) /\ WF_vars(performAutoSave)

\* a rectangle resized by each of its handles
NextResize ==
    \E a \in ResizedRectangles, key \in ResizeHandleKeys, mousePos \in DragPoints :
        resizeDragged(a, key, mousePos)
SpecResize == InitAnnotator /\ [][NextResize]_vars

\* image files of one to MaxBytes bytes exported and imported
NextExport == \E file \in ImageFiles : exportedAndImported(file)
SpecExport == InitAnnotator /\ [][NextExport]_vars

\* ------------------------------------------------------------------ Electron main process
\* electron/main.js: automatic recording. An overlay window is "open" until
\* close() is called on it, "closing" until its 'closed' event is delivered. A
\* helper process is "running" until it is killed or dies, "ending" between
\* kill() and its 'exit' event, and "failing" when spawn() returned a process
\* whose 'error' event is still to come.
MaxWindows == 3
MaxHelpers == 3
MaxClicks == 2
MaxTicks == 3
SpawnOutcomes == {"running", "failing", "none"}
rendererVars == <<hist, images, appFlags, error, sessionVars, modalVars, calls,
                  editingIndex, selectedIndices, dragVars, annotVars, lastOp, pre,
                  autoSave>>

createOverlayForDisplay(m, d) ==
    IF m.overlayWindows[d] # 0
    THEN m
    ELSE [m EXCEPT !.windows = Append(@, [display |-> d, state |-> "open"]),
                   !.overlayWindows[d] = Len(m.windows) + 1]
RECURSIVE forEachDisplay(_, _)
forEachDisplay(m, ds) ==
    IF ds = {}
    THEN m
    ELSE LET d == CHOOSE x \in ds : \A y \in ds : x <= y
         IN forEachDisplay(createOverlayForDisplay(m, d), ds \ {d})
\* overlay.close() unless overlay.isDestroyed()
closeOverlay(w) == IF w.state = "open" THEN [w EXCEPT !.state = "closing"] ELSE w
destroyOverlays(m) ==
    [m EXCEPT !.windows = [i \in 1..Len(m.windows) |->
                              IF \E d \in Displays : m.overlayWindows[d] = i
                              THEN closeOverlay(m.windows[i])
                              ELSE m.windows[i]],
              !.overlayWindows = [d \in Displays |-> 0]]

\* `spawned` is what spawn() gives: a running helper, a process whose spawn fails
\* with an 'error' event, or nothing (no executable, or spawn threw)
startNativeMouseHook(m, spawned) ==
    IF m.platform # "win32" THEN m
    ELSE IF m.mouseHookProcess # 0 THEN m
    ELSE IF spawned = "none" THEN m
    ELSE [m EXCEPT !.helpers = Append(@, spawned),
                   !.mouseHookProcess = Len(m.helpers) + 1,
                   !.lastNativeCaptureAt = 0,
                   !.mouseHookInterface = Len(m.helpers) + 1,
                   !.readers = @ \cup {Len(m.helpers) + 1}]
stopNativeMouseHook(m) ==
    [m EXCEPT !.readers = @ \ {m.mouseHookInterface},
              !.mouseHookInterface = 0,
              !.helpers = [h \in 1..Len(m.helpers) |->
                              IF h = m.mouseHookProcess /\ m.helpers[h] = "running"
                              THEN "ending"
                              ELSE m.helpers[h]],
              !.mouseHookProcess = 0]

\* ipc 'recording:set-enabled' with enabled = true
startGlobalRecording(spawned) ==
    /\ Len(main.windows) + Cardinality(main.displays) <= MaxWindows
    /\ Len(main.helpers) < MaxHelpers
    /\ main' = IF main.recordingActive
               THEN startNativeMouseHook(main, spawned)
               ELSE startNativeMouseHook(
                        forEachDisplay([main EXCEPT !.recordingActive = TRUE],
                                       main.displays),
                        spawned)
    /\ UNCHANGED rendererVars
\* ipc 'recording:set-enabled' with enabled = false, and 'window-all-closed'
stopGlobalRecording ==
    /\ main' = IF ~main.recordingActive
               THEN stopNativeMouseHook(main)
               ELSE stopNativeMouseHook(destroyOverlays([main EXCEPT !.recordingActive = FALSE]))
    /\ UNCHANGED rendererVars

\* screen 'display-added'
displayAdded(d) ==
    /\ d \in Displays \ main.displays
    /\ Len(main.windows) < MaxWindows
    /\ main' = IF main.recordingActive
               THEN createOverlayForDisplay([main EXCEPT !.displays = @ \cup {d}], d)
               ELSE [main EXCEPT !.displays = @ \cup {d}]
    /\ UNCHANGED rendererVars
\* screen 'display-removed'
displayRemoved(d) ==
    /\ d \in main.displays /\ main.displays # {d}
    /\ main' = [main EXCEPT !.displays = @ \ {d},
                            !.windows = [i \in 1..Len(main.windows) |->
                                            IF i = main.overlayWindows[d]
                                            THEN closeOverlay(main.windows[i])
                                            ELSE main.windows[i]],
                            !.overlayWindows[d] = 0]
    /\ UNCHANGED rendererVars
\* the 'closed' event of overlay window i
overlayClosed(i) ==
    /\ i \in 1..Len(main.windows)
    /\ main.windows[i].state = "closing"
    /\ main' = [main EXCEPT !.windows[i].state = "closed",
                            !.overlayWindows[main.windows[i].display] = 0]
    /\ UNCHANGED rendererVars

\* the synchronous part of handleCaptureRequest, up to its first await
handleCaptureRequest(m) ==
    IF ~m.recordingActive \/ m.isCapturing
    THEN m
    ELSE [m EXCEPT !.isCapturing = TRUE, !.awaiting = "captureDisplayAtPoint"]
reported(m) == IF m.recordingActive THEN [m EXCEPT !.clicks = @ + 1] ELSE m
\* ipc 'overlay:click' from the page of overlay window i
overlayClick(i) ==
    /\ i \in 1..Len(main.windows)
    /\ main.windows[i].state = "open"
    /\ main.clicks < MaxClicks
    /\ main' = handleCaptureRequest(reported(main))
    /\ UNCHANGED rendererVars
\* a 'left_down' line of helper h read by its interface
nativeLine(h, insideWindow) ==
    /\ h \in main.readers
    /\ main.helpers[h] = "running"
    /\ main.clicks < MaxClicks
    /\ main' = IF insideWindow
               THEN main
               ELSE IF main.now - main.lastNativeCaptureAt < MOUSE_HOOK_THROTTLE_MS
               THEN reported(main)
               ELSE handleCaptureRequest(
                        [reported(main) EXCEPT !.lastNativeCaptureAt = main.now])
    /\ UNCHANGED rendererVars
\* 150 ms pass
clockTick ==
    /\ main.now < MOUSE_HOOK_THROTTLE_MS + 150 * MaxTicks
    /\ main' = [main EXCEPT !.now = @ + 150]
    /\ UNCHANGED rendererVars
\* captureDisplayAtPoint resolves, with a dataUrl or with null
sendScreenshot(m, source) ==
    [m EXCEPT !.sent = @ + 1, !.source = source, !.isCapturing = FALSE,
              !.awaiting = "none"]
displayCaptured(hasDataUrl) ==
    /\ main.awaiting = "captureDisplayAtPoint"
    /\ main' = IF hasDataUrl
               THEN sendScreenshot(main, "native")
               ELSE [main EXCEPT !.awaiting = "capturePage"]
    /\ UNCHANGED rendererVars
\* mainWindow.webContents.capturePage resolves
pageCaptured ==
    /\ main.awaiting = "capturePage"
    /\ main' = sendScreenshot(main, "fallback")
    /\ UNCHANGED rendererVars

\* the 'exit' event of helper h: its stdout ends, which closes the interface
\* reading it, and the handler registered at its start runs
helperExit(h) ==
    /\ h \in 1..Len(main.helpers)
    /\ main.helpers[h] \in {"running", "ending"}
    /\ main' = [main EXCEPT !.helpers[h] = "exited",
                            !.readers = @ \ {h, main.mouseHookInterface},
                            !.mouseHookProcess = 0,
                            !.mouseHookInterface = 0]
    /\ UNCHANGED rendererVars
\* the 'error' event of helper h, whose spawn failed
helperError(h) ==
    /\ h \in 1..Len(main.helpers)
    /\ main.helpers[h] = "failing"
    /\ main' = stopNativeMouseHook([main EXCEPT !.helpers[h] = "exited",
                                                !.readers = @ \ {h}])
    /\ UNCHANGED rendererVars

\* the app as it starts, on Windows or on another platform
InitRecording ==
    /\ hist = reset(EmptyDoc)
    /\ images = <<>>
    /\ isLoading = FALSE /\ isMerging = FALSE /\ regeneratingIndex = -1 /\ isSaving = FALSE
    /\ error = Null
    /\ currentSessionId = 0 /\ sessions = {} /\ db = {}
    /\ isGenerateConfirmOpen = FALSE /\ isSettingsOpen = TRUE /\ hasApiKey = TRUE
    /\ calls = <<>>
    /\ editingIndex = -1
    /\ selectedIndices = <<>> /\ draggedIndex = -1 /\ dragOverIndex = -1
    /\ lastOp = Op("init", "none", EmptyDoc)
    /\ pre = reset(EmptyDoc)
    /\ annotator = closedAnnotator /\ gesture = [past |-> 0, moves |-> 0]
    /\ autoSave = autoSaveUnarmed
    /\ main \in {mainOn("win32"), mainOn("darwin")}
\* clicks and captures while recording is switched on and off
NextCapture ==
    \/ \E spawned \in SpawnOutcomes : startGlobalRecording(spawned)
    \/ stopGlobalRecording
    \/ \E i \in 1..MaxWindows : overlayClick(i)
    \/ \E h \in 1..MaxHelpers, insideWindow \in BOOLEAN : nativeLine(h, insideWindow)
    \/ clockTick
    \/ \E hasDataUrl \in BOOLEAN : displayCaptured(hasDataUrl)
    \/ pageCaptured
SpecCapture == InitRecording /\ [][NextCapture]_vars

\* overlays and displays while recording is switched on and off
NextOverlays ==
    \/ \E spawned \in SpawnOutcomes : startGlobalRecording(spawned)
    \/ stopGlobalRecording
    \/ \E d \in Displays : displayAdded(d)
    \/ \E d \in Displays : displayRemoved(d)
    \/ \E i \in 1..MaxWindows : overlayClosed(i)
SpecOverlays == InitRecording /\ [][NextOverlays]_vars

\* helper processes while recording is switched on and off
NextHook ==
    \/ \E spawned \in SpawnOutcomes : startGlobalRecording(spawned)
    \/ stopGlobalRecording
    \/ \E h \in 1..MaxHelpers : helperExit(h)
    \/ \E h \in 1..MaxHelpers : helperError(h)
SpecHook == InitRecording /\ [][NextHook]_vars

\* ------------------------------------------------------------------ properties
\* the handler that ran last called the history callback `h` of the current render
called(h) == lastOp.h = h

\* C1: a set of a document that is not deep-equal to present appends the old
\* present to past, makes the document present and empties future, so that a
\* redo after it changes nothing (also when the set follows an undo).
SetPushesAndClearsFuture ==
    (called("set") /\ ~deepEqual(lastOp.arg, pre.present)) =>
        /\ hist = History(Append(pre.past, pre.present), lastOp.arg, <<>>)
        /\ ~canRedo(hist)
        /\ redo(hist) = hist
SetAfterUndoReached ==
    /\ called("set") /\ ~deepEqual(lastOp.arg, pre.present)
    /\ canRedo(pre) /\ canUndo(pre)
    /\ hist.present = lastOp.arg

\* C2: a set of a document deep-equal to present changes neither past, present
\* nor future.
SetOfEqualIsNoOp ==
    (called("set") /\ deepEqual(lastOp.arg, pre.present)) => hist = pre
SetOfEqualReached ==
    /\ called("set") /\ deepEqual(lastOp.arg, pre.present)
    /\ canUndo(pre) /\ canRedo(pre)

\* C3: undo and redo are mutual inverses: when past is non-empty redo after undo
\* gives back the same past, present and future, and when future is non-empty
\* undo after redo does; an undo or redo that ran is reverted by the other.
UndoRedoInverse ==
    /\ canUndo(hist) => redo(undo(hist)) = hist
    /\ canRedo(hist) => undo(redo(hist)) = hist
    /\ (called("undo") /\ canUndo(pre)) => (hist # pre /\ redo(hist) = pre)
    /\ (called("redo") /\ canRedo(pre)) => (hist # pre /\ undo(hist) = pre)
UndoWithFutureReached ==
    /\ called("undo") /\ canUndo(pre) /\ canRedo(pre)
    /\ Len(hist.future) = 2

\* C4: undo with an empty past and redo with an empty future change nothing.
UndoRedoGuarded ==
    /\ (called("undo") /\ ~canUndo(pre)) => hist = pre
    /\ (called("redo") /\ ~canRedo(pre)) => hist = pre
UndoAtBottomReached ==
    called("undo") /\ ~canUndo(pre) /\ canRedo(pre) /\ hist = pre

\* C5: reset(seed) leaves past empty, present equal to the seed and future
\* empty, so neither undo nor redo is available after it.
ResetClearsHistory ==
    called("reset") =>
        /\ hist = History(<<>>, lastOp.arg, <<>>)
        /\ ~canUndo(hist) /\ ~canRedo(hist)
        /\ undo(hist) = hist /\ redo(hist) = hist
ResetOfEditedReached ==
    /\ called("reset") /\ lastOp.name = "generateResolved"
    /\ canUndo(pre) /\ canRedo(pre)
    /\ Len(hist.present.steps) > 0

\* C6: when a regenerate, merge or save call settles and writes, it writes on the
\* history that is current at that moment: the present of that moment goes to
\* past and an edit made while the call was outstanding (here the title) is kept.
SettleWritesOnCurrent ==
    (lastOp.name \in {"regenerateResolved", "mergeResolved"} /\ called("set") /\ hist # pre) =>
        /\ hist.past = Append(pre.past, pre.present)
        /\ hist.present.title = pre.present.title

\* C7: a generation that fails commits nothing: the step in which generate-all
\* rejects, or in which one per-image call of a merge rejects, leaves past,
\* present (title and steps) and future as they were and sets an error; starting
\* the action and the per-image answers that arrive before the failure write
\* nothing either.
FailedGenerationCommitsNothing ==
    /\ lastOp.name \in {"generateRejected", "mergeRejected"} => (hist = pre /\ error # Null)
    /\ lastOp.name \in {"handleGenerate", "handleConfirmGenerate", "handleMergeInstructions",
                         "mergeImageResolved"} => hist = pre
    /\ (isLoading \/ isMerging) =>
          \E c \in 1..Len(calls) : calls[c].kind \in {"generate", "merge"}
MergeFailedReached ==
    /\ lastOp.name = "mergeRejected"
    /\ canUndo(hist) /\ Len(instructionSteps) > 0
    /\ error = "provider error" /\ ~isMerging

\* C8: a started generate-all, merge or regenerate has its busy flag cleared
\* once its provider call has settled, resolved or rejected.
BusyClears ==
    /\ isLoading ~> ~isLoading
    /\ isMerging ~> ~isMerging
    /\ (regeneratingIndex # -1) ~> (regeneratingIndex = -1)
RegenerateFailedReached ==
    /\ lastOp.name = "regenerateRejected"
    /\ regeneratingIndex = -1 /\ ~isLoading /\ ~isMerging
    /\ calls = <<>> /\ error = "provider error"

\* C9: no two calls of the same action are outstanding together (for regenerate:
\* of the same step), and at most one generate-all or merge call is outstanding.
OneCallPerAction ==
    /\ \A c1, c2 \in 1..Len(calls) :
          (c1 # c2 /\ calls[c1].kind = calls[c2].kind) =>
              (calls[c1].kind = "regen" /\ calls[c1].stepIndex # calls[c2].stepIndex)
    /\ Cardinality({c \in 1..Len(calls) : calls[c].kind \in {"generate", "merge"}}) <= 1

\* C10: a well-formed list stays well-formed under insert, delete, merge and
\* reorder of blocks, grouping it into blocks and flattening gives the list back,
\* and every screenshot left after an operation is in the block of the text step
\* that owned it before, or in the merged block that this text step went into.
wellFormed(steps) == steps = <<>> \/ steps[1].type = "text"
\* the text step of the block that holds the image step
ownerOf(steps, imageStep) ==
    LET blocks == instructionBlocks(steps)
    IN blocks[CHOOSE b \in 1..Len(blocks) : Includes(blocks[b].imageSteps, imageStep)].textStep
\* the texts a merge can give: the join of two or more texts of the list, in order
mergedTexts(steps, member) ==
    {join([k \in 1..Len(sortedSeq(S)) |-> At(steps, sortedSeq(S)[k]).content]) :
        S \in {T \in SUBSET TextIndices(steps) :
                 Cardinality(T) > 1 /\ \E i \in T : At(steps, i) = member}}
BlockInvariant ==
    /\ wellFormed(instructionSteps)
    /\ flatten(instructionBlocks(instructionSteps)) = instructionSteps
    /\ (lastOp.name \in {"handleInsertStep", "handleDeleteStep", "handleMerge", "handleDrop"}
          /\ called("set")) =>
         \A k \in imageStepsOf(instructionSteps) :
            LET image == instructionSteps[k]
                before == ownerOf(pre.present.steps, image)
                after == ownerOf(instructionSteps, image)
            IN \/ after = before
               \/ /\ lastOp.name = "handleMerge"
                  /\ after.content \in mergedTexts(pre.present.steps, before)
MergedBlockReached ==
    /\ lastOp.name = "handleMerge" /\ called("set")
    /\ \E b \in 1..Len(instructionBlocks(instructionSteps)) :
          LET imgs == instructionBlocks(instructionSteps)[b].imageSteps
          IN /\ Len(imgs) = 2
             /\ ownerOf(pre.present.steps, imgs[1]) # ownerOf(pre.present.steps, imgs[2])
    /\ Len(instructionBlocks(instructionSteps)) > 1

\* C11: merging a selection of two or more blocks, selected in any order, gives
\* one block where the lowest selected block was; its text is the selected
\* texts joined by single spaces in ascending order and its images are all
\* their images in the original order; the unselected blocks are unchanged and
\* keep their order; with fewer than two selected the list is unchanged.
RECURSIVE imagesOfBlocks(_, _)
imagesOfBlocks(blocks, order) ==
    IF order = <<>> THEN <<>>
    ELSE blocks[order[1]].imageSteps \o imagesOfBlocks(blocks, Tail(order))
sameBlock(b1, b2) == b1.textStep = b2.textStep /\ b1.imageSteps = b2.imageSteps
MergeGivesOneBlock ==
    /\ lastOp.name = "handleMerge" =>
          LET old == instructionBlocks(pre.present.steps)
              new == instructionBlocks(instructionSteps)
              chosen == {b \in 1..Len(old) : Includes(lastOp.input, old[b].textStepIndex)}
              order == sortedSeq(chosen)
              first == order[1]
          IN /\ Cardinality(chosen) = Len(lastOp.input) /\ Len(order) >= 2
             /\ flatten(new) = instructionSteps
             /\ Len(new) = Len(old) - Len(order) + 1
             /\ new[first].textStep =
                    TextStep(join([k \in 1..Len(order) |-> old[order[k]].textStep.content]))
             /\ new[first].imageSteps = imagesOfBlocks(old, order)
             /\ \A b \in (1..Len(old)) \ chosen :
                    sameBlock(old[b],
                              new[IF b < first THEN b
                                  ELSE b - Cardinality({c \in chosen : c < b}) + 1])
    /\ mergeSteps(instructionSteps, <<>>) = instructionSteps
    /\ \A i \in TextIndices(instructionSteps) : mergeSteps(instructionSteps, <<i>>) = instructionSteps
MergeInReverseOrderReached ==
    /\ lastOp.name = "handleMerge"
    /\ lastOp.input[1] > lastOp.input[2]
    /\ Len(instructionBlocks(instructionSteps)) > 1
    /\ \E b \in 1..Len(instructionBlocks(instructionSteps)) :
          /\ Len(instructionBlocks(instructionSteps)[b].imageSteps) = 2
          /\ Len(instructionBlocks(instructionSteps)[b].textStep.content) > 2

\* C12: deleting the block at textIndex removes that text step and the image
\* steps that follow it up to the next text step, and nothing else; the other
\* steps keep their order, and the deletion is one history entry that a single
\* undo takes back.
DeleteRemovesOneBlock ==
    lastOp.name = "handleDeleteStep" =>
        LET before == pre.present.steps
            textIndex == lastOp.input[1]
        IN /\ At(before, textIndex).type = "text"
           /\ \E n \in 0..Len(before) :
                 /\ textIndex + n < Len(before)
                 /\ \A k \in 1..n : At(before, textIndex + k).type = "image"
                 /\ textIndex + n + 1 < Len(before) => At(before, textIndex + n + 1).type = "text"
                 /\ instructionSteps = SubSeq(before, 1, textIndex)
                                        \o SubSeq(before, textIndex + n + 2, Len(before))
           /\ hist = History(Append(pre.past, pre.present),
                             [pre.present EXCEPT !.steps = instructionSteps], <<>>)
           /\ undo(hist).present = pre.present /\ undo(hist).past = pre.past
DeleteOfMiddleBlockReached ==
    /\ lastOp.name = "handleDeleteStep"
    /\ lastOp.input[1] > 0
    /\ Len(instructionSteps) > lastOp.input[1]
    /\ Len(pre.present.steps) - Len(instructionSteps) = 2

\* C13: reordering from block position `from` to a different position `to` gives
\* a permutation of the blocks: the moved block, text and images intact, is at
\* position `to`, the other blocks keep their relative order, and the steps are
\* the same multiset as before.
countOf(steps, step) == Cardinality({k \in 1..Len(steps) : steps[k] = step})
ReorderMovesOneBlock ==
    lastOp.name = "handleDrop" =>
        LET from == lastOp.input[1]
            to == lastOp.input[2]
            old == instructionBlocks(pre.present.steps)
            new == instructionBlocks(instructionSteps)
        IN IF called("set")
           THEN /\ from # to
                /\ flatten(new) = instructionSteps
                /\ Len(new) = Len(old)
                /\ sameBlock(new[to + 1], old[from + 1])
                /\ removeAt(new, to) = [k \in 1..(Len(old) - 1) |->
                                          [removeAt(old, from)[k] EXCEPT
                                             !.textStepIndex = removeAt(new, to)[k].textStepIndex]]
                /\ \A k \in 1..Len(instructionSteps) :
                       countOf(instructionSteps, instructionSteps[k])
                         = countOf(pre.present.steps, instructionSteps[k])
                /\ Len(instructionSteps) = Len(pre.present.steps)
           ELSE hist = pre
ReorderDownwardsReached ==
    /\ lastOp.name = "handleDrop" /\ called("set")
    /\ lastOp.input = <<0, 2>>
    /\ Len(instructionBlocks(instructionSteps)[3].imageSteps) > 0
    /\ hist # pre

\* C14: inserting after a block puts one empty text step directly after that
\* block's last step (its text or its last image), or at position 0 for
\* "before first"; the other steps are unchanged and in order, and the index
\* opened for editing is where the new empty text step sits.
InsertPutsEmptyStepAfterBlock ==
    lastOp.name = "handleInsertStep" =>
        LET before == pre.present.steps
            afterBlockIndex == lastOp.input[1]
            old == instructionBlocks(before)
            position == IF afterBlockIndex = -1 THEN 0
                        ELSE Len(flatten(SubSeq(old, 1, afterBlockIndex + 1)))
        IN /\ instructionSteps = SubSeq(before, 1, position) \o <<TextStep(<<>>)>>
                                   \o SubSeq(before, position + 1, Len(before))
           /\ position < Len(before) => At(before, position).type = "text"
           /\ editingIndex = position
           /\ At(instructionSteps, editingIndex) = TextStep(<<>>)
           /\ afterBlockIndex >= 0 =>
                 sameBlock(instructionBlocks(instructionSteps)[afterBlockIndex + 1],
                           old[afterBlockIndex + 1])
InsertAfterImagesReached ==
    /\ lastOp.name = "handleInsertStep"
    /\ lastOp.input = <<0>>
    /\ editingIndex = 2
    /\ At(instructionSteps, 1).type = "image"
    /\ Len(instructionSteps) > 3

\* C15: after a successful incremental merge every block that existed before
\* (text with all its images, also a block with several images or with none) is
\* still there unchanged, and there is exactly one new block for every image
\* index that no image step referenced, its image step carrying that index + 1.
MergeKeepsBlocksAndAddsNew ==
    (lastOp.name = "mergeResolved" /\ called("set")
       /\ hist.past = Append(pre.past, pre.present)) =>
        LET old == instructionBlocks(pre.present.steps)
            new == instructionBlocks(instructionSteps)
            fresh == newImagesToProcess(pre.present.steps, images)
        IN /\ \A b \in 1..Len(old) : \E c \in 1..Len(new) : sameBlock(old[b], new[c])
           /\ \A i \in fresh :
                 Cardinality({k \in imageStepsOf(instructionSteps) :
                                instructionSteps[k].content = StringOf(i + 1)}) = 1
           /\ Len(new) = Len(old) + Cardinality(fresh)

\* C16: from an empty document, after a successful generation and one edit of a
\* text step, one undo gives back exactly the generated document (title, steps,
\* order), and the generation is the baseline: it starts the history, nothing
\* but a reset moves the bottom of the history, and a further undo changes nothing.
baseline(h) == IF h.past = <<>> THEN h.present ELSE h.past[1]
GenerateEditUndo ==
    /\ lastOp.name = "generateResolved" => hist = History(<<>>, lastOp.arg, <<>>)
    /\ ~called("reset") => baseline(hist) = baseline(pre)
    /\ (lastOp.name = "undo" /\ Len(pre.past) = 1) =>
          /\ hist.present = baseline(pre)
          /\ hist.future = <<pre.present>> \o pre.future
          /\ ~canUndo(hist) /\ undo(hist) = hist
UndoOfEditReached ==
    /\ lastOp.name = "undo"
    /\ Len(pre.past) = 1 /\ pre.future = <<>>
    /\ pre.past[1] \in GeneratedDocs(Len(images))
    /\ \E k \in 1..Len(pre.present.steps) : pre.present.steps[k].content \in EditedTexts
    /\ hist = History(<<>>, pre.past[1], <<pre.present>>)

\* C17: a failed save leaves the history as it was (the document stays marked
\* unsaved) and clears the saving flag; a successful save makes the document
\* the new baseline, past and future empty, without changing the present
\* document.
SaveKeepsPresent ==
    /\ lastOp.name = "saveRejected" => (hist = pre /\ ~isSaving)
    /\ lastOp.name = "saveReloaded" =>
          (hist = History(<<>>, pre.present, <<>>) /\ ~isModified /\ ~isSaving)

\* C18: a load that fails (storage error or session not found) leaves the
\* document history, the images and currentSessionId exactly as they were; only
\* the error message changes (starting the load only clears the error).
FailedLoadChangesOnlyError ==
    [][/\ lastOp'.name = "loadRejected" =>
            /\ UNCHANGED <<hist, images, currentSessionId, sessions, db, appFlags, modalVars>>
            /\ error' = "Failed to load session."
       /\ lastOp'.name = "handleLoadSession" =>
            UNCHANGED <<hist, images, currentSessionId, sessions, db, appFlags, modalVars>>]_vars
FailedLoadReached ==
    /\ lastOp.name = "loadRejected"
    /\ error = "Failed to load session."
    /\ canUndo(hist) /\ currentSessionId # 0 /\ images # <<>>

\* C19: import refuses every file without a title or whose steps or images are
\* no arrays, before anything is changed: no session is stored and history,
\* images and currentSessionId are as they were; only the error is set.
lacksFormat(file) == file.title = "" \/ ~file.stepsIsArray \/ ~file.imagesIsArray
ImportRejectsBeforeMutation ==
    [][/\ lastOp'.name = "importRejected" =>
            /\ UNCHANGED <<hist, images, currentSessionId, sessions, db, appFlags, modalVars>>
            /\ error' = "Could not import session."
       /\ lastOp'.name = "handleImportSession" =>
            UNCHANGED <<hist, images, currentSessionId, sessions, db, error>>
       /\ lastOp'.name = "importValidated" => ~lacksFormat(lastOp'.input[1])
       /\ lastOp'.name = "importStored" =>
            \A c \in 1..Len(calls') :
               (calls'[c].kind = "import" /\ calls'[c].phase = "reload")
                 => ~lacksFormat(calls'[c].results)]_vars
ImportWithoutTitleReached ==
    /\ lastOp.name = "importRejected"
    /\ lastOp.input[1] = ImportFile(TRUE, "", TRUE, TRUE)
    /\ error = "Could not import session."
    /\ canUndo(hist) /\ db = {} /\ images # <<>>

\* C20: between pointer-down and pointer-up of a drawing, moving, resizing or
\* rotating gesture a pointer move changes only the draft: the annotation list and
\* its undo and redo stacks stay as they are, and the whole gesture, pointer-up
\* included, leaves at most one more undo entry than there was at pointer-down.
draftFields == {"drawingAnnotation"}
MovesChangeOnlyDraft ==
    [][/\ lastOp'.name = "handleMouseMove" =>
            /\ annotator'.history = annotator.history
            /\ (inGesture /\ annotator.tool # "crop") =>
                 \A f \in DOMAIN annotator \ draftFields : annotator'[f] = annotator[f]
       /\ (lastOp'.name = "handleMouseUp" /\ inGesture) =>
            Len(annotator'.history.past) <= gesture.past + 1]_vars
MovedWithUndoAndRedoReached ==
    /\ lastOp.name = "handleMouseMove"
    /\ annotator.currentAction = "moving" /\ annotator.tool = "select"
    /\ gesture.moves = MaxMoves
    /\ annotator.drawingAnnotation # annotator.actionState.annotation
    /\ canUndo(annotator.history) /\ canRedo(annotator.history)

labelsOf(list) == {ParseInt(list[i].text) : i \in {j \in 1..Len(list) : list[j].type = "number"}}
BadgeLabelIsMaxPlusOne ==
    [][(lastOp'.name = "handleMouseDown" /\ annotator.tool = "number") =>
          LET before == annotator.history.present
              after == annotator'.history.present
              label == ParseInt(after[Len(after)].text)
          IN /\ Len(after) = Len(before) + 1
             /\ SubSeq(after, 1, Len(before)) = before
             /\ after[Len(after)].type = "number"
             /\ label \notin labelsOf(before)
             /\ \A n \in labelsOf(before) : n < label
             /\ label = 1 \/ (label - 1) \in labelsOf(before)
             /\ (labelsOf(before) = {1, 3} /\ Len(before) = 2) => label = 4]_vars
BadgeAfterErasedSecondReached ==
    /\ lastOp.name = "handleMouseDown"
    /\ Len(annotator.history.present) = 3
    /\ [i \in 1..3 |-> annotator.history.present[i].text] = <<StringOf(1), StringOf(3), StringOf(4)>>
    /\ Len(annotator.history.past) = 5
    /\ labelsOf(annotator.history.past[4]) = {1, 2, 3}

\* C26: no two annotations of the committed list share an id, whatever the timing
\* of the creations that take their ids from the millisecond clock.
AnnotationIdsUnique ==
    \A i, j \in 1..Len(annotator.history.present) :
        i # j => annotator.history.present[i].id # annotator.history.present[j].id

\* C23: in crop mode, after a pointer-up there is no pending crop rectangle or
\* one of non-negative width, and the pointer-up changes neither the images nor
\* the annotation list.
CropRectNormalisedAfterPointerUp ==
    (lastOp.name = "handleMouseUp" /\ annotator.tool = "crop" /\ annotator.cropRect # NoRect)
        => annotator.cropRect.width >= 0

PointerUpWithoutMoveCancels ==
    [][(lastOp'.name = "handleMouseUp" /\ inGesture /\ gesture.moves = 0)
         => /\ annotator'.history = annotator.history
            /\ annotator.currentAction = "cropping" => annotator'.cropRect = NoRect]_vars

\* C27: the annotation history is shared neither across images nor with the
\* guide: the annotator opens with an empty list and empty undo and redo stacks,
\* no operation of the annotator changes the guide's past, present or future,
\* and the guide's undo/redo shortcut changes nothing while the annotator is open.
AnnotatorOps ==
    {"selectTool", "handleMouseDown", "handleMouseMove", "handleMouseUp",
     "handleDeleteSelected", "undoAnnotation", "redoAnnotation"}
AnnotationHistoryNotShared ==
    [][/\ lastOp'.name = "handleAnnotateImage" => annotator'.history = reset(<<>>)
       /\ lastOp'.name \in AnnotatorOps => hist' = hist
       /\ (lastOp'.name = "handleKeyDown" /\ annotatorOpen)
            => hist' = hist /\ annotator' = annotator]_vars
ShortcutBehindAnnotatorReached ==
    /\ lastOp.name = "handleKeyDown" /\ annotatorOpen
    /\ ~lastOp.input[1].typing /\ lastOp.input[1].key = "z" /\ ~lastOp.input[1].shiftKey
    /\ canUndo(hist) /\ canUndo(annotator.history)
    /\ annotator.history.present # <<>>

ExportRoundTrip ==
    lastOp.name = "base64ToFile" =>
        LET file == lastOp.input[1]
            back == lastOp.input[2]
        IN /\ Len(back.bytes) = Len(file.bytes) /\ back.bytes = file.bytes
           /\ back.name = file.name /\ back.type = file.type
           /\ back.lastModified = file.lastModified
PaddedFileRoundTripReached ==
    /\ lastOp.name = "base64ToFile"
    /\ lastOp.input[1].bytes = <<255, 77>> /\ lastOp.input[2].bytes = <<255, 77>>
    /\ lastOp.input[1].type = "" /\ lastOp.input[1].name = "b c.png"
    /\ btoa(lastOp.input[1].bytes) = <<"/", "0", "0", "=">>

\* C30: whenever the guide has unsaved changes, the auto-save eventually writes
\* the current guide to local storage, unless the changes are saved, undone or
\* reset first, whatever edits are made in the meantime.
AutoSaveEventuallyWrites ==
    isModified ~> (\/ ~isModified
                   \/ autoSave.stored = ExportedSession(documentState, images))

\* C32: a pointer-down with no gesture going on starts the resizing or rotating
\* of the selected annotation when one of its handles is under the pointer,
\* whatever annotations contain the point; otherwise, with the select tool, the
\* last in the list of the annotations that contain the point is selected and
\* its moving starts.
pointerDownPicked(e) ==
    IF e.handle # Null
    THEN /\ annotator'.currentAction = (IF e.handle = "rotate" THEN "rotating" ELSE "resizing")
         /\ annotator'.selectedAnnotationId = annotator.selectedAnnotationId
         /\ annotator'.drawingAnnotation.id = annotator.selectedAnnotationId
         /\ annotator'.activeHandleKey = e.handle
    ELSE (annotator.tool = "select" /\ e.hits # {}) =>
            \E i \in e.hits :
                /\ \A j \in e.hits : j <= i
                /\ annotator'.selectedAnnotationId = annotator.history.present[i].id
                /\ annotator'.drawingAnnotation = annotator.history.present[i]
                /\ annotator'.currentAction = "moving"
removedAt(k) ==
    LET list == annotator.history.present
    IN /\ annotator'.history.present = SubSeq(list, 1, k - 1) \o SubSeq(list, k + 1, Len(list))
       /\ annotator'.history.past = Append(annotator.history.past, list)
       /\ annotator'.history.future = <<>>
       /\ annotator'.selectedAnnotationId =
              IF annotator.selectedAnnotationId = list[k].id THEN 0
              ELSE annotator.selectedAnnotationId
RemovalTakesExactlyOne ==
    [][/\ (lastOp'.name = "handleDeleteSelected"
            /\ find(annotator.history.present, annotator.selectedAnnotationId) # NoAnnotation)
           => \E k \in 1..Len(annotator.history.present) :
                 /\ annotator.history.present[k].id = annotator.selectedAnnotationId
                 /\ removedAt(k)
       /\ (lastOp'.name = "handleMouseDown" /\ annotator.tool = "eraser"
            /\ lastOp'.input[1] # {})
           => \E k \in lastOp'.input[1] : (\A j \in lastOp'.input[1] : j <= k) /\ removedAt(k)]_vars

\* C36: the selection of the annotator is null or the id of an annotation of the
\* committed list, in every state reached by drawing, deleting, erasing, undo
\* and redo.
SelectionIsCommitted ==
    \/ annotator.selectedAnnotationId = 0
    \/ annotator.selectedAnnotationId \in idsOf(annotator.history.present)

\* C37: dragging the e or w handle of an unrotated rectangle leaves its top and
\* bottom where they were, and dragging the n or s handle leaves its left and
\* right where they were, wherever the pointer goes.
EdgeResizeKeepsOtherAxis ==
    (lastOp.name = "resizing" /\ lastOp.input[1].rotation = 0) =>
        LET before == shapeBounds(lastOp.input[1])
            after == shapeBounds(lastOp.input[4])
            key == lastOp.input[2]
        IN /\ key \in {"e", "w"} => after.minY = before.minY /\ after.maxY = before.maxY
           /\ key \in {"n", "s"} => after.minX = before.minX /\ after.maxX = before.maxX

\* C34: every image step of the guide refers to an image there is: its content
\* is a decimal integer k with 1 <= k <= the number of images, whatever images
\* are added to or removed from the queue and whatever is edited, undone or
\* redone.
ImageStepsReferToImages ==
    \A i \in 1..Len(instructionSteps) :
        instructionSteps[i].type = "image" =>
            /\ ParseInt(instructionSteps[i].content) # NaN
            /\ ParseInt(instructionSteps[i].content) >= 1
            /\ ParseInt(instructionSteps[i].content) <= Len(images)

\* C35: content that differs from what was last saved, loaded or started as a
\* new session is flagged as modified, in particular right after a generation
\* has succeeded. No session is saved or loaded here, so the content to compare
\* with is that of the new session: no title, no steps.
GeneratedGuideIsModified ==
    (lastOp.name = "generateResolved" /\ documentState # EmptyDoc) => isModified

\* C31: while recording is active every click reported to the main process gets
\* its screenshot: once no capture is in progress, as many screenshots were sent
\* as clicks were reported, those reported during an earlier capture included.
EveryClickGetsScreenshot ==
    ~main.isCapturing => main.sent = main.clicks

\* C38: a 'recording:screenshot' message is sent only while recording is active,
\* also when the capture was in flight as recording was stopped.
ScreenshotOnlyWhileRecording ==
    [][main'.sent > main.sent => main.recordingActive]_vars

\* C39: every open overlay window is the one the overlay map holds for its
\* display, and no overlay window is open while recording is inactive.
OverlaysTrackedAndClosed ==
    \A i \in 1..Len(main.windows) :
        main.windows[i].state = "open" =>
            /\ main.recordingActive
            /\ main.overlayWindows[main.windows[i].display] = i

\* C40: at most one helper process is alive, and mouseHookProcess and the open
\* line reader are those of the helper that is alive.
OneHelperReferenced ==
    /\ Cardinality({h \in 1..Len(main.helpers) : main.helpers[h] = "running"}) <= 1
    /\ \A h \in 1..Len(main.helpers) :
           main.helpers[h] = "running" =>
               /\ main.mouseHookProcess = h
               /\ main.mouseHookInterface = h
               /\ h \in main.readers

====
